---- MODULE Spec2Model ----
(***************************************************************************)
(* Model of src/settings.rs of meilisearch-rust: the tri-state Setting<T>  *)
(* value and its serde codec, the settings aggregates and their builders,  *)
(* and the settings operations of Index against the search service.        *)
(***************************************************************************)
EXTENDS Integers, Sequences, FiniteSets, TLC

VARIABLES
    settings,   \* the Settings aggregate held by the caller
    typo,       \* the TypoToleranceSettings value held by the caller
    cell,       \* a bare Setting<T> value held by the caller, with its payload type
    calls,      \* number of builder calls made on the values above
    hist,       \* the last call on a value: its name, argument and receiver
    wire,       \* the last document put on the wire, who produced it and from what value
    decoded,    \* the result of the last decode, and the document it read
    service,    \* the settings document the service holds for the index
    tasks,      \* accepted write requests the service has not applied yet
    nextUid,    \* uid the service gives to the next accepted task
    applied     \* the last task applied, and the service document before it

vars == <<settings, typo, cell, calls, hist, wire, decoded, service, tasks, nextUid, applied>>

(***************************************************************************)
(* Values: Option<T>, Setting<T>, Result<T, E>                             *)
(***************************************************************************)
None == [tag |-> "None"]
Some(x) == [tag |-> "Some", v |-> x]

NotSet == [tag |-> "NotSet"]
Reset == [tag |-> "Reset"]
Set(x) == [tag |-> "Set", v |-> x]

Ok(x) == [ok |-> TRUE, v |-> x]
Err(e) == [ok |-> FALSE, err |-> e]

\* Setting::default
Setting_default == NotSet

\* is_not_set written as "not Set": Reset is skipped as well.
is_not_set_or_reset(self) == self.tag # "Set"

\* Setting::is_not_set
is_not_set(self) == self.tag = "NotSet"

\* Option::is_none
is_none(self) == self.tag = "None"

\* or_reset giving a value to NotSet as well as to Reset.
or_reset_or_not_set(self, val) == IF self.tag # "Set" THEN Set(val) ELSE self

\* Setting::or_reset
or_reset(self, val) == IF self.tag = "Reset" THEN Set(val) ELSE self

(***************************************************************************)
(* JSON documents.  An object is a function from its keys to JSON values.  *)
(* MissingField is what a derived struct decoder hands to a field's        *)
(* decoder when the key is absent: it answers a request for an option     *)
(* with "none" and every other request with the missing-field error.       *)
(***************************************************************************)
JNull == [j |-> "null"]
JBool(b) == [j |-> "bool", b |-> b]
JNum(n) == [j |-> "num", n |-> n]
JStr(s) == [j |-> "str", s |-> s]
JArr(a) == [j |-> "arr", a |-> a]
JObj(o) == [j |-> "obj", o |-> o]
MissingField == [j |-> "missing"]

EmptyObj == JObj([k \in {} |-> JNull])

HasKey(doc, key) == doc.j = "obj" /\ key \in DOMAIN doc.o

\* What the decoder of field `key` is given: the value under the key, or MissingField.
FieldOf(doc, key) == IF key \in DOMAIN doc.o THEN doc.o[key] ELSE MissingField

\* A derived Serialize of a struct: every field whose skip_serializing_if
\* predicate is false is emitted under its renamed key.
\* fields is a set of records [key, skip, val].
StructSerialize(fields) ==
    LET kept == {f \in fields : ~f.skip}
    IN  JObj([k \in {f.key : f \in kept} |-> (CHOOSE f \in kept : f.key = k).val])

\* The types that are written and read; Option<T> and Setting<T> name their payload.
Ty(name) == [c |-> name]
OptionOf(T) == [c |-> "Option", of |-> T]
SettingOf(T) == [c |-> "Setting", of |-> T]

\* <T as Serialize>::serialize and <T as Deserialize>::deserialize
RECURSIVE serialize(_, _)
RECURSIVE deserialize(_, _)

U8Max == 255

\* bool
bool_serialize(self) == JBool(self)
bool_deserialize(j) ==
    IF j.j = "bool" THEN Ok(j.b)
    ELSE IF j.j = "missing" THEN Err("missing field") ELSE Err("invalid type")

\* u8
u8_serialize(self) == JNum(self)
u8_deserialize(j) ==
    IF j.j = "num" THEN (IF j.n >= 0 /\ j.n <= U8Max THEN Ok(j.n) ELSE Err("invalid value"))
    ELSE IF j.j = "missing" THEN Err("missing field") ELSE Err("invalid type")

\* usize
usize_serialize(self) == JNum(self)

\* usize read with usize::default() in place of a value that is no number.
usize_deserialize_or_default(j) ==
    IF j.j = "num" /\ j.n >= 0 THEN Ok(j.n) ELSE Ok(0)

usize_deserialize(j) ==
    IF j.j = "num" THEN (IF j.n >= 0 THEN Ok(j.n) ELSE Err("invalid value"))
    ELSE IF j.j = "missing" THEN Err("missing field") ELSE Err("invalid type")

\* String
String_serialize(self) == JStr(self)
String_deserialize(j) ==
    IF j.j = "str" THEN Ok(j.s)
    ELSE IF j.j = "missing" THEN Err("missing field") ELSE Err("invalid type")

\* Vec<String>
VecString_serialize(self) == JArr([i \in 1..Len(self) |-> String_serialize(self[i])])
VecString_deserialize(j) ==
    IF j.j = "arr"
    THEN IF \A i \in 1..Len(j.a) : String_deserialize(j.a[i]).ok
         THEN Ok([i \in 1..Len(j.a) |-> String_deserialize(j.a[i]).v])
         ELSE Err("invalid type")
    ELSE IF j.j = "missing" THEN Err("missing field") ELSE Err("invalid type")

\* HashMap<String, Vec<String>>
Synonyms_serialize(self) == JObj([k \in DOMAIN self |-> VecString_serialize(self[k])])
Synonyms_deserialize(j) ==
    IF j.j = "obj"
    THEN IF \A k \in DOMAIN j.o : VecString_deserialize(j.o[k]).ok
         THEN Ok([k \in DOMAIN j.o |-> VecString_deserialize(j.o[k]).v])
         ELSE Err("invalid type")
    ELSE IF j.j = "missing" THEN Err("missing field") ELSE Err("invalid type")

\* Option<T>: none is null, some(x) is x; null and a missing field decode to none.
Option_serialize(self, T) == IF self.tag = "Some" THEN serialize(T, self.v) ELSE JNull
Option_deserialize(j, T) ==
    IF j.j \in {"null", "missing"} THEN Ok(None)
    ELSE LET r == deserialize(T, j) IN IF r.ok THEN Ok(Some(r.v)) ELSE r

\* Setting<T> serialized in the derived enum form instead of as an option.
Setting_serialize_derived(self, T) ==
    IF self.tag = "Set" THEN JObj([k \in {"Set"} |-> serialize(T, self.v)])
    ELSE JStr(self.tag)

\* impl Serialize for Setting<T>
Setting_serialize(self, T) ==
    Option_serialize(IF self.tag = "Set" THEN Some(self.v) ELSE None, T)

\* Setting<T> never read from the document: the field takes Setting::default().
Setting_deserialize_skipped(j, T) == Ok(Setting_default)

\* Setting<T> deserialized with null mapped to NotSet instead of Reset.
Setting_deserialize_null_as_notset(j, T) ==
    LET x == Option_deserialize(j, T)
    IN  IF ~x.ok THEN x
        ELSE IF x.v.tag = "Some" THEN Ok(Set(x.v.v)) ELSE Ok(NotSet)

\* impl Deserialize for Setting<T>
Setting_deserialize(j, T) ==
    LET x == Option_deserialize(j, T)
    IN  IF ~x.ok THEN x
        ELSE IF x.v.tag = "Some" THEN Ok(Set(x.v.v)) ELSE Ok(Reset)

(***************************************************************************)
(* The structs and their derived codecs (rename_all = "camelCase").        *)
(***************************************************************************)
\* #[serde(rename_all = "camelCase")]: the key a field is written and read under.
camelCase(field) ==
    CASE field = "max_total_hits" -> "maxTotalHits"
      [] field = "one_typo" -> "oneTypo"
      [] field = "two_typos" -> "twoTypos"
      [] field = "enabled" -> "enabled"
      [] field = "disable_on_attributes" -> "disableOnAttributes"
      [] field = "disable_on_words" -> "disableOnWords"
      [] field = "min_word_size_for_typos" -> "minWordSizeForTypos"
      [] field = "max_values_per_facet" -> "maxValuesPerFacet"
      [] field = "synonyms" -> "synonyms"
      [] field = "stop_words" -> "stopWords"
      [] field = "ranking_rules" -> "rankingRules"
      [] field = "filterable_attributes" -> "filterableAttributes"
      [] field = "sortable_attributes" -> "sortableAttributes"
      [] field = "distinct_attribute" -> "distinctAttribute"
      [] field = "searchable_attributes" -> "searchableAttributes"
      [] field = "displayed_attributes" -> "displayedAttributes"
      [] field = "pagination" -> "pagination"
      [] field = "faceting" -> "faceting"
      [] field = "typo_tolerance" -> "typoTolerance"

\* The error of a derived struct decoder, given the results of its fields: a
\* present value of the wrong type fails when it is read, a missing field when
\* the document ends.
\* rs is the sequence of the fields' results.
StructErr(rs) ==
    IF \E i \in DOMAIN rs : ~rs[i].ok /\ rs[i].err # "missing field"
    THEN rs[CHOOSE i \in DOMAIN rs : ~rs[i].ok /\ rs[i].err # "missing field"]
    ELSE Err("missing field")

\* What a derived struct decoder answers to a document that is no object.
NotAStruct(j) == IF j.j = "missing" THEN Err("missing field") ELSE Err("invalid type")

\* PaginationSetting encoded under the name of its Rust field.
PaginationSetting_serialize_snake_case(self) ==
    StructSerialize({
        [key |-> "max_total_hits", skip |-> FALSE,
         val |-> usize_serialize(self.max_total_hits)]})

\* struct PaginationSetting
PaginationSetting_serialize(self) ==
    StructSerialize({
        [key |-> camelCase("max_total_hits"), skip |-> FALSE,
         val |-> usize_serialize(self.max_total_hits)]})

\* PaginationSetting read from the key named as its Rust field.
PaginationSetting_deserialize_snake_case(j) ==
    IF j.j # "obj" THEN NotAStruct(j)
    ELSE LET max_total_hits == usize_deserialize(FieldOf(j, "max_total_hits"))
         IN  IF max_total_hits.ok
             THEN Ok([max_total_hits |-> max_total_hits.v])
             ELSE StructErr(<<max_total_hits>>)

PaginationSetting_deserialize(j) ==
    IF j.j # "obj" THEN NotAStruct(j)
    ELSE LET max_total_hits == usize_deserialize(FieldOf(j, camelCase("max_total_hits")))
         IN  IF max_total_hits.ok
             THEN Ok([max_total_hits |-> max_total_hits.v])
             ELSE StructErr(<<max_total_hits>>)

\* struct FacetingSettings
FacetingSettings_serialize(self) ==
    StructSerialize({
        [key |-> camelCase("max_values_per_facet"), skip |-> FALSE,
         val |-> usize_serialize(self.max_values_per_facet)]})

FacetingSettings_deserialize(j) ==
    IF j.j # "obj" THEN NotAStruct(j)
    ELSE LET max_values_per_facet ==
                 usize_deserialize(FieldOf(j, camelCase("max_values_per_facet")))
         IN  IF max_values_per_facet.ok
             THEN Ok([max_values_per_facet |-> max_values_per_facet.v])
             ELSE StructErr(<<max_values_per_facet>>)

\* MinWordSizeForTypos read with #[serde(default)] on the struct: a sub-field
\* that is missing takes its value from MinWordSizeForTypos::default().
MinWordSizeForTypos_deserialize_defaulted(j) ==
    IF j.j # "obj" THEN NotAStruct(j)
    ELSE LET one_typo ==
                 IF camelCase("one_typo") \in DOMAIN j.o
                 THEN Option_deserialize(FieldOf(j, camelCase("one_typo")), Ty("u8"))
                 ELSE Ok(Some(5))
             two_typos ==
                 IF camelCase("two_typos") \in DOMAIN j.o
                 THEN Option_deserialize(FieldOf(j, camelCase("two_typos")), Ty("u8"))
                 ELSE Ok(Some(9))
         IN  IF one_typo.ok /\ two_typos.ok
             THEN Ok([one_typo |-> one_typo.v, two_typos |-> two_typos.v])
             ELSE StructErr(<<one_typo, two_typos>>)

\* struct MinWordSizeForTypos
MinWordSizeForTypos_serialize(self) ==
    StructSerialize({
        [key |-> camelCase("one_typo"), skip |-> is_none(self.one_typo),
         val |-> Option_serialize(self.one_typo, Ty("u8"))],
        [key |-> camelCase("two_typos"), skip |-> is_none(self.two_typos),
         val |-> Option_serialize(self.two_typos, Ty("u8"))]})

MinWordSizeForTypos_deserialize(j) ==
    IF j.j # "obj" THEN NotAStruct(j)
    ELSE LET one_typo == Option_deserialize(FieldOf(j, camelCase("one_typo")), Ty("u8"))
             two_typos == Option_deserialize(FieldOf(j, camelCase("two_typos")), Ty("u8"))
         IN  IF one_typo.ok /\ two_typos.ok
             THEN Ok([one_typo |-> one_typo.v, two_typos |-> two_typos.v])
             ELSE StructErr(<<one_typo, two_typos>>)

\* impl Default for MinWordSizeForTypos
MinWordSizeForTypos_default == [one_typo |-> Some(5), two_typos |-> Some(9)]

\* TypoToleranceSettings serialized without the skip_serializing_if gate on enabled.
TypoToleranceSettings_serialize_ungated(self) ==
    StructSerialize({
        [key |-> camelCase("enabled"), skip |-> FALSE,
         val |-> Setting_serialize(self.enabled, Ty("bool"))],
        [key |-> camelCase("disable_on_attributes"), skip |-> FALSE,
         val |-> VecString_serialize(self.disable_on_attributes)],
        [key |-> camelCase("disable_on_words"), skip |-> FALSE,
         val |-> VecString_serialize(self.disable_on_words)],
        [key |-> camelCase("min_word_size_for_typos"), skip |-> FALSE,
         val |-> MinWordSizeForTypos_serialize(self.min_word_size_for_typos)]})

\* TypoToleranceSettings with the commented-out attribute of disable_on_attributes
\* in force: skip_serializing_if = "Vec::is_empty".
TypoToleranceSettings_serialize_skip_empty(self) ==
    StructSerialize({
        [key |-> camelCase("enabled"), skip |-> is_not_set(self.enabled),
         val |-> Setting_serialize(self.enabled, Ty("bool"))],
        [key |-> camelCase("disable_on_attributes"), skip |-> self.disable_on_attributes = <<>>,
         val |-> VecString_serialize(self.disable_on_attributes)],
        [key |-> camelCase("disable_on_words"), skip |-> FALSE,
         val |-> VecString_serialize(self.disable_on_words)],
        [key |-> camelCase("min_word_size_for_typos"), skip |-> FALSE,
         val |-> MinWordSizeForTypos_serialize(self.min_word_size_for_typos)]})

\* struct TypoToleranceSettings: enabled carries skip_serializing_if =
\* "Setting::is_not_set" and no default; the other fields carry no attribute.
TypoToleranceSettings_serialize(self) ==
    StructSerialize({
        [key |-> camelCase("enabled"), skip |-> is_not_set(self.enabled),
         val |-> Setting_serialize(self.enabled, Ty("bool"))],
        [key |-> camelCase("disable_on_attributes"), skip |-> FALSE,
         val |-> VecString_serialize(self.disable_on_attributes)],
        [key |-> camelCase("disable_on_words"), skip |-> FALSE,
         val |-> VecString_serialize(self.disable_on_words)],
        [key |-> camelCase("min_word_size_for_typos"), skip |-> FALSE,
         val |-> MinWordSizeForTypos_serialize(self.min_word_size_for_typos)]})

TypoToleranceSettings_deserialize(j) ==
    IF j.j # "obj" THEN NotAStruct(j)
    ELSE LET enabled == Setting_deserialize(FieldOf(j, camelCase("enabled")), Ty("bool"))
             disable_on_attributes ==
                 VecString_deserialize(FieldOf(j, camelCase("disable_on_attributes")))
             disable_on_words ==
                 VecString_deserialize(FieldOf(j, camelCase("disable_on_words")))
             min_word_size_for_typos ==
                 MinWordSizeForTypos_deserialize(FieldOf(j, camelCase("min_word_size_for_typos")))
             rs == <<enabled, disable_on_attributes, disable_on_words, min_word_size_for_typos>>
         IN  IF \A i \in DOMAIN rs : rs[i].ok
             THEN Ok([enabled |-> enabled.v,
                      disable_on_attributes |-> disable_on_attributes.v,
                      disable_on_words |-> disable_on_words.v,
                      min_word_size_for_typos |-> min_word_size_for_typos.v])
             ELSE StructErr(rs)

\* Default for TypoToleranceSettings as derive(Default) would give it: every
\* field takes the default of its type.
TypoToleranceSettings_default_derived ==
    [enabled |-> Setting_default,
     disable_on_attributes |-> <<>>,
     disable_on_words |-> <<>>,
     min_word_size_for_typos |-> [one_typo |-> None, two_typos |-> None]]

\* impl Default for TypoToleranceSettings
TypoToleranceSettings_default ==
    [enabled |-> Set(TRUE),
     disable_on_attributes |-> <<>>,
     disable_on_words |-> <<>>,
     min_word_size_for_typos |-> MinWordSizeForTypos_default]

\* TypoToleranceSettings::new
TypoToleranceSettings_new ==
    [enabled |-> Set(TRUE),
     disable_on_attributes |-> <<>>,
     disable_on_words |-> <<>>,
     min_word_size_for_typos |-> MinWordSizeForTypos_default]

\* .into_iter().map(|v| v.as_ref().to_string()).collect()
collect(iter) == [i \in 1..Len(iter) |-> iter[i]]

\* with_enabled taking false to mean "restore the default".
with_enabled_false_as_reset(self, enabled) ==
    [self EXCEPT !.enabled = IF enabled THEN Set(TRUE) ELSE Reset]

\* TypoToleranceSettings::with_enabled
with_enabled(self, enabled) == [self EXCEPT !.enabled = Set(enabled)]

\* TypoToleranceSettings::with_disable_on_attributes
with_disable_on_attributes(self, disable_on_attributes) ==
    [self EXCEPT !.disable_on_attributes = collect(disable_on_attributes)]

\* TypoToleranceSettings::with_disable_on_words
with_disable_on_words(self, disable_on_words) ==
    [self EXCEPT !.disable_on_words = collect(disable_on_words)]


\* with_min_word_size_for_typos refusing sizes that are out of order: the
\* receiver is returned as it was.
with_min_word_size_for_typos_checked(self, min_word_size_for_typos) ==
    IF /\ min_word_size_for_typos.one_typo.tag = "Some"
       /\ min_word_size_for_typos.two_typos.tag = "Some"
       /\ min_word_size_for_typos.one_typo.v > min_word_size_for_typos.two_typos.v
    THEN self
    ELSE [self EXCEPT !.min_word_size_for_typos = min_word_size_for_typos]

\* TypoToleranceSettings::with_min_word_size_for_typos
with_min_word_size_for_typos(self, min_word_size_for_typos) ==
    [self EXCEPT !.min_word_size_for_typos = min_word_size_for_typos]

(***************************************************************************)
(* struct Settings: eleven optional groups, each skipped when None.        *)
(***************************************************************************)
SettingsFields ==
    {"synonyms", "stop_words", "ranking_rules", "filterable_attributes",
     "sortable_attributes", "distinct_attribute", "searchable_attributes",
     "displayed_attributes", "pagination", "faceting", "typo_tolerance"}

\* Settings serialized without the skip_serializing_if gates: None is written as null.
Settings_serialize_ungated(self) ==
    StructSerialize({
        [key |-> camelCase("synonyms"), skip |-> FALSE,
         val |-> Option_serialize(self.synonyms, Ty("Synonyms"))],
        [key |-> camelCase("stop_words"), skip |-> FALSE,
         val |-> Option_serialize(self.stop_words, Ty("VecString"))],
        [key |-> camelCase("ranking_rules"), skip |-> FALSE,
         val |-> Option_serialize(self.ranking_rules, Ty("VecString"))],
        [key |-> camelCase("filterable_attributes"), skip |-> FALSE,
         val |-> Option_serialize(self.filterable_attributes, Ty("VecString"))],
        [key |-> camelCase("sortable_attributes"), skip |-> FALSE,
         val |-> Option_serialize(self.sortable_attributes, Ty("VecString"))],
        [key |-> camelCase("distinct_attribute"), skip |-> FALSE,
         val |-> Option_serialize(self.distinct_attribute, Ty("String"))],
        [key |-> camelCase("searchable_attributes"), skip |-> FALSE,
         val |-> Option_serialize(self.searchable_attributes, Ty("VecString"))],
        [key |-> camelCase("displayed_attributes"), skip |-> FALSE,
         val |-> Option_serialize(self.displayed_attributes, Ty("VecString"))],
        [key |-> camelCase("pagination"), skip |-> FALSE,
         val |-> Option_serialize(self.pagination, Ty("PaginationSetting"))],
        [key |-> camelCase("faceting"), skip |-> FALSE,
         val |-> Option_serialize(self.faceting, Ty("FacetingSettings"))],
        [key |-> camelCase("typo_tolerance"), skip |-> FALSE,
         val |-> Option_serialize(self.typo_tolerance, Ty("TypoToleranceSettings"))]})

\* struct Settings
Settings_serialize(self) ==
    StructSerialize({
        [key |-> camelCase("synonyms"), skip |-> is_none(self.synonyms),
         val |-> Option_serialize(self.synonyms, Ty("Synonyms"))],
        [key |-> camelCase("stop_words"), skip |-> is_none(self.stop_words),
         val |-> Option_serialize(self.stop_words, Ty("VecString"))],
        [key |-> camelCase("ranking_rules"), skip |-> is_none(self.ranking_rules),
         val |-> Option_serialize(self.ranking_rules, Ty("VecString"))],
        [key |-> camelCase("filterable_attributes"), skip |-> is_none(self.filterable_attributes),
         val |-> Option_serialize(self.filterable_attributes, Ty("VecString"))],
        [key |-> camelCase("sortable_attributes"), skip |-> is_none(self.sortable_attributes),
         val |-> Option_serialize(self.sortable_attributes, Ty("VecString"))],
        [key |-> camelCase("distinct_attribute"), skip |-> is_none(self.distinct_attribute),
         val |-> Option_serialize(self.distinct_attribute, Ty("String"))],
        [key |-> camelCase("searchable_attributes"), skip |-> is_none(self.searchable_attributes),
         val |-> Option_serialize(self.searchable_attributes, Ty("VecString"))],
        [key |-> camelCase("displayed_attributes"), skip |-> is_none(self.displayed_attributes),
         val |-> Option_serialize(self.displayed_attributes, Ty("VecString"))],
        [key |-> camelCase("pagination"), skip |-> is_none(self.pagination),
         val |-> Option_serialize(self.pagination, Ty("PaginationSetting"))],
        [key |-> camelCase("faceting"), skip |-> is_none(self.faceting),
         val |-> Option_serialize(self.faceting, Ty("FacetingSettings"))],
        [key |-> camelCase("typo_tolerance"), skip |-> is_none(self.typo_tolerance),
         val |-> Option_serialize(self.typo_tolerance, Ty("TypoToleranceSettings"))]})

Settings_deserialize(j) ==
    IF j.j # "obj" THEN NotAStruct(j)
    ELSE LET synonyms ==
                 Option_deserialize(FieldOf(j, camelCase("synonyms")), Ty("Synonyms"))
             stop_words ==
                 Option_deserialize(FieldOf(j, camelCase("stop_words")), Ty("VecString"))
             ranking_rules ==
                 Option_deserialize(FieldOf(j, camelCase("ranking_rules")), Ty("VecString"))
             filterable_attributes ==
                 Option_deserialize(FieldOf(j, camelCase("filterable_attributes")), Ty("VecString"))
             sortable_attributes ==
                 Option_deserialize(FieldOf(j, camelCase("sortable_attributes")), Ty("VecString"))
             distinct_attribute ==
                 Option_deserialize(FieldOf(j, camelCase("distinct_attribute")), Ty("String"))
             searchable_attributes ==
                 Option_deserialize(FieldOf(j, camelCase("searchable_attributes")), Ty("VecString"))
             displayed_attributes ==
                 Option_deserialize(FieldOf(j, camelCase("displayed_attributes")), Ty("VecString"))
             pagination ==
                 Option_deserialize(FieldOf(j, camelCase("pagination")), Ty("PaginationSetting"))
             faceting ==
                 Option_deserialize(FieldOf(j, camelCase("faceting")), Ty("FacetingSettings"))
             typo_tolerance ==
                 Option_deserialize(FieldOf(j, camelCase("typo_tolerance")), Ty("TypoToleranceSettings"))
             rs == <<synonyms, stop_words, ranking_rules,
                     filterable_attributes, sortable_attributes, distinct_attribute,
                     searchable_attributes, displayed_attributes, pagination,
                     faceting, typo_tolerance>>
         IN  IF \A i \in DOMAIN rs : rs[i].ok
             THEN Ok([synonyms |-> synonyms.v,
                      stop_words |-> stop_words.v,
                      ranking_rules |-> ranking_rules.v,
                      filterable_attributes |-> filterable_attributes.v,
                      sortable_attributes |-> sortable_attributes.v,
                      distinct_attribute |-> distinct_attribute.v,
                      searchable_attributes |-> searchable_attributes.v,
                      displayed_attributes |-> displayed_attributes.v,
                      pagination |-> pagination.v,
                      faceting |-> faceting.v,
                      typo_tolerance |-> typo_tolerance.v])
             ELSE StructErr(rs)

\* Settings::new
Settings_new ==
    [synonyms |-> None,
     stop_words |-> None,
     ranking_rules |-> None,
     filterable_attributes |-> None,
     sortable_attributes |-> None,
     distinct_attribute |-> None,
     searchable_attributes |-> None,
     displayed_attributes |-> None,
     pagination |-> None,
     faceting |-> None,
     typo_tolerance |-> None]

\* derive(Default) for Settings: every field takes Option::default(), None.
Settings_default == [f \in SettingsFields |-> None]

\* with_synonyms adding its entries to the map the receiver already holds.
with_synonyms_extend(self, synonyms) ==
    LET old == IF self.synonyms.tag = "Some" THEN self.synonyms.v ELSE <<>>
    IN  [self EXCEPT !.synonyms =
            Some([key \in DOMAIN old \cup DOMAIN synonyms |->
                     IF key \in DOMAIN synonyms THEN collect(synonyms[key]) ELSE old[key]])]

\* Settings::with_synonyms
with_synonyms(self, synonyms) ==
    [self EXCEPT !.synonyms = Some([key \in DOMAIN synonyms |-> collect(synonyms[key])])]

\* with_stop_words building on Settings::new() instead of on self.
with_stop_words_from_new(self, stop_words) ==
    [Settings_new EXCEPT !.stop_words = Some(collect(stop_words))]

\* Settings::with_stop_words
with_stop_words(self, stop_words) ==
    [self EXCEPT !.stop_words = Some(collect(stop_words))]

\* with_pagination building on Settings::new() instead of on self.
with_pagination_from_new(self, pagination_settings) ==
    [Settings_new EXCEPT !.pagination = Some(pagination_settings)]

\* Settings::with_ranking_rules
with_ranking_rules(self, ranking_rules) ==
    [self EXCEPT !.ranking_rules = Some(collect(ranking_rules))]

\* with_filterable_attributes taking an empty list to mean "no value".
with_filterable_attributes_empty_as_none(self, filterable_attributes) ==
    [self EXCEPT !.filterable_attributes =
        IF Len(filterable_attributes) = 0 THEN None ELSE Some(collect(filterable_attributes))]

\* Settings::with_filterable_attributes
with_filterable_attributes(self, filterable_attributes) ==
    [self EXCEPT !.filterable_attributes = Some(collect(filterable_attributes))]

\* Settings::with_sortable_attributes
with_sortable_attributes(self, sortable_attributes) ==
    [self EXCEPT !.sortable_attributes = Some(collect(sortable_attributes))]

\* Settings::with_searchable_attributes
with_searchable_attributes(self, searchable_attributes) ==
    [self EXCEPT !.searchable_attributes = Some(collect(searchable_attributes))]

\* Settings::with_displayed_attributes
with_displayed_attributes(self, displayed_attributes) ==
    [self EXCEPT !.displayed_attributes = Some(collect(displayed_attributes))]

\* Settings::with_distinct_attribute
with_distinct_attribute(self, distinct_attribute) ==
    [self EXCEPT !.distinct_attribute = Some(distinct_attribute)]

\* Settings::with_pagination
with_pagination(self, pagination_settings) ==
    [self EXCEPT !.pagination = Some(pagination_settings)]

\* Settings::with_typo_tolerance
with_typo_tolerance(self, typo_tolerance_settings) ==
    [self EXCEPT !.typo_tolerance = Some(typo_tolerance_settings)]

\* Settings::with_faceting
with_faceting(self, faceting) ==
    [self EXCEPT !.faceting = Some(faceting)]

(***************************************************************************)
(* Trait dispatch: the codec of each type.                                 *)
(***************************************************************************)
serialize(T, self) ==
    CASE T.c = "bool" -> bool_serialize(self)
      [] T.c = "u8" -> u8_serialize(self)
      [] T.c = "usize" -> usize_serialize(self)
      [] T.c = "String" -> String_serialize(self)
      [] T.c = "VecString" -> VecString_serialize(self)
      [] T.c = "Synonyms" -> Synonyms_serialize(self)
      [] T.c = "Option" -> Option_serialize(self, T.of)
      [] T.c = "Setting" -> Setting_serialize(self, T.of)
      [] T.c = "PaginationSetting" -> PaginationSetting_serialize(self)
      [] T.c = "FacetingSettings" -> FacetingSettings_serialize(self)
      [] T.c = "MinWordSizeForTypos" -> MinWordSizeForTypos_serialize(self)
      [] T.c = "TypoToleranceSettings" -> TypoToleranceSettings_serialize(self)
      [] T.c = "Settings" -> Settings_serialize(self)

deserialize(T, j) ==
    CASE T.c = "bool" -> bool_deserialize(j)
      [] T.c = "u8" -> u8_deserialize(j)
      [] T.c = "usize" -> usize_deserialize(j)
      [] T.c = "String" -> String_deserialize(j)
      [] T.c = "VecString" -> VecString_deserialize(j)
      [] T.c = "Synonyms" -> Synonyms_deserialize(j)
      [] T.c = "Option" -> Option_deserialize(j, T.of)
      [] T.c = "Setting" -> Setting_deserialize(j, T.of)
      [] T.c = "PaginationSetting" -> PaginationSetting_deserialize(j)
      [] T.c = "FacetingSettings" -> FacetingSettings_deserialize(j)
      [] T.c = "MinWordSizeForTypos" -> MinWordSizeForTypos_deserialize(j)
      [] T.c = "TypoToleranceSettings" -> TypoToleranceSettings_deserialize(j)
      [] T.c = "Settings" -> Settings_deserialize(j)

(***************************************************************************)
(* Inputs, and the values of the variables an operation has not touched.   *)
(***************************************************************************)
SettingBoolInputs == {Set(TRUE), Set(FALSE), Reset, NotSet}
SettingOptionBoolInputs == {Set(Some(TRUE)), Set(Some(FALSE)), Set(None), Reset, NotSet}
AttrLists == {<<>>, <<"title">>, <<"title", "overview">>}
WordLists == {<<>>, <<"a", "the", "of">>}
MinWordSizeInputs ==
    {MinWordSizeForTypos_default,
     [one_typo |-> Some(9), two_typos |-> Some(5)],
     [one_typo |-> None, two_typos |-> Some(9)],
     [one_typo |-> None, two_typos |-> None]}

TypoInputs ==
    [enabled : SettingBoolInputs,
     disable_on_attributes : AttrLists,
     disable_on_words : WordLists,
     min_word_size_for_typos : MinWordSizeInputs]

NoCell == [ty |-> Ty("none"), s |-> NotSet]
NoHist == [on |-> "none"]
NoWire == [from |-> "none", ty |-> Ty("none"), src |-> JNull, doc |-> JNull]
NoDecoded ==
    [from |-> "none", ty |-> Ty("none"), src |-> JNull, doc |-> JNull, res |-> Err("none")]

(***************************************************************************)
(* The search service, as far as the settings of one index go.  It holds   *)
(* the resolved settings document; a fresh index holds the defaults.       *)
(***************************************************************************)
DefaultMaxTotalHits == 1000
DefaultMaxValuesPerFacet == 100

ServiceDefault ==
    JObj([k \in {camelCase(f) : f \in SettingsFields} |->
        CASE k = "synonyms" -> EmptyObj
          [] k = "stopWords" -> JArr(<<>>)
          [] k = "rankingRules" ->
                VecString_serialize(<<"words", "typo", "proximity", "attribute", "sort", "exactness">>)
          [] k = "filterableAttributes" -> JArr(<<>>)
          [] k = "sortableAttributes" -> JArr(<<>>)
          [] k = "distinctAttribute" -> JNull
          [] k = "searchableAttributes" -> VecString_serialize(<<"*">>)
          [] k = "displayedAttributes" -> VecString_serialize(<<"*">>)
          [] k = "pagination" ->
                PaginationSetting_serialize([max_total_hits |-> DefaultMaxTotalHits])
          [] k = "faceting" ->
                FacetingSettings_serialize([max_values_per_facet |-> DefaultMaxValuesPerFacet])
          [] k = "typoTolerance" ->
                TypoToleranceSettings_serialize(TypoToleranceSettings_default)])

NoApplied == [uid |-> -1]

(***************************************************************************)
(* Encoding and decoding values: the first inputs are drawn by InitCodec.  *)
(***************************************************************************)
\* serde_json::to_value(&typo)
serialize_typo ==
    /\ wire' = [from |-> "client", ty |-> Ty("TypoToleranceSettings"), src |-> typo,
                doc |-> serialize(Ty("TypoToleranceSettings"), typo)]
    /\ UNCHANGED <<settings, typo, cell, calls, hist, decoded, service, tasks, nextUid, applied>>

\* serde_json::to_value(&settings)
serialize_settings ==
    /\ wire' = [from |-> "client", ty |-> Ty("Settings"), src |-> settings,
                doc |-> serialize(Ty("Settings"), settings)]
    /\ UNCHANGED <<settings, typo, cell, calls, hist, decoded, service, tasks, nextUid, applied>>

\* serde_json::to_value(&setting), for a Setting<T> that is no field of a struct
serialize_setting ==
    /\ cell.ty.c = "Setting"
    /\ wire' = [from |-> "client", ty |-> cell.ty, src |-> cell.s,
                doc |-> serialize(cell.ty, cell.s)]
    /\ UNCHANGED <<settings, typo, cell, calls, hist, decoded, service, tasks, nextUid, applied>>

\* serde_json::from_value of the document on the wire, at the type it was written for
deserialize_wire ==
    /\ wire.ty.c # "none"
    /\ decoded' = [from |-> wire.from, ty |-> wire.ty, src |-> wire.src, doc |-> wire.doc,
                   res |-> deserialize(wire.ty, wire.doc)]
    /\ UNCHANGED <<settings, typo, cell, calls, hist, wire, service, tasks, nextUid, applied>>

(***************************************************************************)
(* Building values: a caller starts from new() and chains with_* calls.    *)
(***************************************************************************)
MaxCalls == 2

SynonymInputs ==
    {[k \in {} |-> <<>>], [k \in {"wolverine"} |-> <<"xmen", "logan">>]}
RankingInputs == {<<"words", "typo">>, <<"typo", "words">>}
DistinctInputs == {"id", "title"}
PaginationInputs == {[max_total_hits |-> n] : n \in {11, 100}}
FacetingInputs == {[max_values_per_facet |-> n] : n \in {5, 100}}

TypoFields == {"enabled", "disable_on_attributes", "disable_on_words", "min_word_size_for_typos"}

\* The call before the last one, when it was made on the same kind of value.
PrevCall(on) ==
    IF hist.on = on
    THEN [on |-> on, field |-> hist.field, arg |-> hist.arg, before |-> hist.before]
    ELSE NoHist

\* self.with_<field>(arg), the mutator chosen by the name of its field.
Settings_with(self, field, arg) ==
    CASE field = "synonyms" -> with_synonyms(self, arg)
      [] field = "stop_words" -> with_stop_words(self, arg)
      [] field = "pagination" -> with_pagination(self, arg)
      [] field = "ranking_rules" -> with_ranking_rules(self, arg)
      [] field = "filterable_attributes" -> with_filterable_attributes(self, arg)
      [] field = "sortable_attributes" -> with_sortable_attributes(self, arg)
      [] field = "distinct_attribute" -> with_distinct_attribute(self, arg)
      [] field = "searchable_attributes" -> with_searchable_attributes(self, arg)
      [] field = "displayed_attributes" -> with_displayed_attributes(self, arg)
      [] field = "faceting" -> with_faceting(self, arg)
      [] field = "typo_tolerance" -> with_typo_tolerance(self, arg)

\* settings = settings.with_<field>(arg)
SettingsCall(field, arg, result) ==
    /\ calls < MaxCalls
    /\ settings' = result
    /\ hist' = [on |-> "Settings", field |-> field, arg |-> arg, before |-> settings,
                prev |-> PrevCall("Settings")]
    /\ calls' = calls + 1
    /\ UNCHANGED <<typo, cell, wire, decoded, service, tasks, nextUid, applied>>

\* typo = typo.with_<field>(arg)
TypoCall(field, arg, result) ==
    /\ calls < MaxCalls
    /\ typo' = result
    /\ hist' = [on |-> "TypoToleranceSettings", field |-> field, arg |-> arg, before |-> typo,
                prev |-> PrevCall("TypoToleranceSettings")]
    /\ calls' = calls + 1
    /\ UNCHANGED <<settings, cell, wire, decoded, service, tasks, nextUid, applied>>

InitBuilder ==
    /\ settings = Settings_new
    /\ typo = TypoToleranceSettings_new
    /\ cell = NoCell
    /\ calls = 0
    /\ hist = NoHist
    /\ wire = NoWire
    /\ decoded = NoDecoded
    /\ service = ServiceDefault
    /\ tasks = <<>>
    /\ nextUid = 0
    /\ applied = NoApplied

NextBuilder ==
    \/ \E v \in SynonymInputs : SettingsCall("synonyms", v, with_synonyms(settings, v))
    \/ \E v \in WordLists : SettingsCall("stop_words", v, with_stop_words(settings, v))
    \/ \E v \in PaginationInputs : SettingsCall("pagination", v, with_pagination(settings, v))
    \/ \E v \in RankingInputs : SettingsCall("ranking_rules", v, with_ranking_rules(settings, v))
    \/ \E v \in AttrLists : SettingsCall("filterable_attributes", v, with_filterable_attributes(settings, v))
    \/ \E v \in AttrLists : SettingsCall("sortable_attributes", v, with_sortable_attributes(settings, v))
    \/ \E v \in DistinctInputs : SettingsCall("distinct_attribute", v, with_distinct_attribute(settings, v))
    \/ \E v \in AttrLists : SettingsCall("searchable_attributes", v, with_searchable_attributes(settings, v))
    \/ \E v \in AttrLists : SettingsCall("displayed_attributes", v, with_displayed_attributes(settings, v))
    \/ \E v \in FacetingInputs : SettingsCall("faceting", v, with_faceting(settings, v))
    \/ SettingsCall("typo_tolerance", typo, with_typo_tolerance(settings, typo))
    \/ \E v \in BOOLEAN : TypoCall("enabled", v, with_enabled(typo, v))
    \/ \E v \in AttrLists : TypoCall("disable_on_attributes", v, with_disable_on_attributes(typo, v))
    \/ \E v \in WordLists : TypoCall("disable_on_words", v, with_disable_on_words(typo, v))
    \/ \E v \in MinWordSizeInputs : TypoCall("min_word_size_for_typos", v, with_min_word_size_for_typos(typo, v))
    \/ serialize_settings
    \/ serialize_typo

SpecBuilder == InitBuilder /\ [][NextBuilder]_vars

(***************************************************************************)
(* The settings operations of Index.  Each builds one request: the method  *)
(* with its body, the URL, the status it expects, and for a read the type  *)
(* the response is decoded at.                                             *)
(***************************************************************************)
Host == "http://localhost:7700"
Uid == "movies"

\* format!("{}/indexes/{}/settings<suffix>", self.client.host, self.uid)
Url(suffix) == Host \o "/indexes/" \o Uid \o "/settings" \o suffix

\* Index::get_settings
get_settings_request ==
    [ty |-> Ty("Settings"), method |-> "GET", url |-> Url(""),
     body |-> JNull, expect |-> 200]

\* Index::get_synonyms
get_synonyms_request ==
    [ty |-> Ty("Synonyms"), method |-> "GET", url |-> Url("/synonyms"),
     body |-> JNull, expect |-> 200]

\* Index::get_pagination
get_pagination_request ==
    [ty |-> Ty("PaginationSetting"), method |-> "GET", url |-> Url("/pagination"),
     body |-> JNull, expect |-> 200]

\* Index::get_stop_words
get_stop_words_request ==
    [ty |-> Ty("VecString"), method |-> "GET", url |-> Url("/stop-words"),
     body |-> JNull, expect |-> 200]

\* Index::get_ranking_rules
get_ranking_rules_request ==
    [ty |-> Ty("VecString"), method |-> "GET", url |-> Url("/ranking-rules"),
     body |-> JNull, expect |-> 200]

\* Index::get_filterable_attributes
get_filterable_attributes_request ==
    [ty |-> Ty("VecString"), method |-> "GET", url |-> Url("/filterable-attributes"),
     body |-> JNull, expect |-> 200]

\* Index::get_sortable_attributes
get_sortable_attributes_request ==
    [ty |-> Ty("VecString"), method |-> "GET", url |-> Url("/sortable-attributes"),
     body |-> JNull, expect |-> 200]

\* Index::get_distinct_attribute
get_distinct_attribute_request ==
    [ty |-> OptionOf(Ty("String")), method |-> "GET", url |-> Url("/distinct-attribute"),
     body |-> JNull, expect |-> 200]

\* Index::get_searchable_attributes
get_searchable_attributes_request ==
    [ty |-> Ty("VecString"), method |-> "GET", url |-> Url("/searchable-attributes"),
     body |-> JNull, expect |-> 200]

\* Index::get_displayed_attributes
get_displayed_attributes_request ==
    [ty |-> Ty("VecString"), method |-> "GET", url |-> Url("/displayed-attributes"),
     body |-> JNull, expect |-> 200]

\* Index::get_faceting
get_faceting_request ==
    [ty |-> Ty("FacetingSettings"), method |-> "GET", url |-> Url("/faceting"),
     body |-> JNull, expect |-> 200]

\* Index::get_typo_tolerance
get_typo_tolerance_request ==
    [ty |-> Ty("TypoToleranceSettings"), method |-> "GET", url |-> Url("/typo-tolerance"),
     body |-> JNull, expect |-> 200]

\* set_settings sending its document as a replacement (PUT) of the settings.
set_settings_request_put(s) ==
    [ty |-> Ty("TaskInfo"), method |-> "PUT", url |-> Url(""),
     body |-> serialize(Ty("Settings"), s), expect |-> 202]

\* Index::set_settings
set_settings_request(s) ==
    [ty |-> Ty("TaskInfo"), method |-> "PATCH", url |-> Url(""),
     body |-> serialize(Ty("Settings"), s), expect |-> 202]

\* Index::set_synonyms
set_synonyms_request(synonyms) ==
    [ty |-> Ty("TaskInfo"), method |-> "PUT", url |-> Url("/synonyms"),
     body |-> serialize(Ty("Synonyms"), synonyms), expect |-> 202]

\* Index::set_pagination
set_pagination_request(pagination) ==
    [ty |-> Ty("TaskInfo"), method |-> "PATCH", url |-> Url("/pagination"),
     body |-> serialize(Ty("PaginationSetting"), pagination), expect |-> 202]

\* set_stop_words sending its list with PATCH.
set_stop_words_request_patch(stop_words) ==
    [ty |-> Ty("TaskInfo"), method |-> "PATCH", url |-> Url("/stop-words"),
     body |-> serialize(Ty("VecString"), collect(stop_words)), expect |-> 202]

\* Index::set_stop_words
set_stop_words_request(stop_words) ==
    [ty |-> Ty("TaskInfo"), method |-> "PUT", url |-> Url("/stop-words"),
     body |-> serialize(Ty("VecString"), collect(stop_words)), expect |-> 202]

\* Index::set_ranking_rules
set_ranking_rules_request(ranking_rules) ==
    [ty |-> Ty("TaskInfo"), method |-> "PUT", url |-> Url("/ranking-rules"),
     body |-> serialize(Ty("VecString"), collect(ranking_rules)), expect |-> 202]

\* Index::set_filterable_attributes
set_filterable_attributes_request(filterable_attributes) ==
    [ty |-> Ty("TaskInfo"), method |-> "PUT", url |-> Url("/filterable-attributes"),
     body |-> serialize(Ty("VecString"), collect(filterable_attributes)), expect |-> 202]

\* Index::set_sortable_attributes
set_sortable_attributes_request(sortable_attributes) ==
    [ty |-> Ty("TaskInfo"), method |-> "PUT", url |-> Url("/sortable-attributes"),
     body |-> serialize(Ty("VecString"), collect(sortable_attributes)), expect |-> 202]

\* Index::set_distinct_attribute
set_distinct_attribute_request(distinct_attribute) ==
    [ty |-> Ty("TaskInfo"), method |-> "PUT", url |-> Url("/distinct-attribute"),
     body |-> serialize(Ty("String"), distinct_attribute), expect |-> 202]

\* Index::set_searchable_attributes
set_searchable_attributes_request(searchable_attributes) ==
    [ty |-> Ty("TaskInfo"), method |-> "PUT", url |-> Url("/searchable-attributes"),
     body |-> serialize(Ty("VecString"), collect(searchable_attributes)), expect |-> 202]

\* Index::set_displayed_attributes
set_displayed_attributes_request(displayed_attributes) ==
    [ty |-> Ty("TaskInfo"), method |-> "PUT", url |-> Url("/displayed-attributes"),
     body |-> serialize(Ty("VecString"), collect(displayed_attributes)), expect |-> 202]

\* Index::set_faceting
set_faceting_request(faceting) ==
    [ty |-> Ty("TaskInfo"), method |-> "PATCH", url |-> Url("/faceting"),
     body |-> serialize(Ty("FacetingSettings"), faceting), expect |-> 202]

\* Index::set_typo_tolerance
set_typo_tolerance_request(typo_tolerance) ==
    [ty |-> Ty("TaskInfo"), method |-> "PATCH", url |-> Url("/typo-tolerance"),
     body |-> serialize(Ty("TypoToleranceSettings"), typo_tolerance), expect |-> 202]

\* Index::reset_settings
reset_settings_request ==
    [ty |-> Ty("TaskInfo"), method |-> "DELETE", url |-> Url(""),
     body |-> JNull, expect |-> 202]

\* Index::reset_synonyms
reset_synonyms_request ==
    [ty |-> Ty("TaskInfo"), method |-> "DELETE", url |-> Url("/synonyms"),
     body |-> JNull, expect |-> 202]

\* Index::reset_pagination
reset_pagination_request ==
    [ty |-> Ty("TaskInfo"), method |-> "DELETE", url |-> Url("/pagination"),
     body |-> JNull, expect |-> 202]

\* Index::reset_stop_words
reset_stop_words_request ==
    [ty |-> Ty("TaskInfo"), method |-> "DELETE", url |-> Url("/stop-words"),
     body |-> JNull, expect |-> 202]

\* Index::reset_ranking_rules
reset_ranking_rules_request ==
    [ty |-> Ty("TaskInfo"), method |-> "DELETE", url |-> Url("/ranking-rules"),
     body |-> JNull, expect |-> 202]

\* Index::reset_filterable_attributes
reset_filterable_attributes_request ==
    [ty |-> Ty("TaskInfo"), method |-> "DELETE", url |-> Url("/filterable-attributes"),
     body |-> JNull, expect |-> 202]

\* Index::reset_sortable_attributes
reset_sortable_attributes_request ==
    [ty |-> Ty("TaskInfo"), method |-> "DELETE", url |-> Url("/sortable-attributes"),
     body |-> JNull, expect |-> 202]

\* Index::reset_distinct_attribute
reset_distinct_attribute_request ==
    [ty |-> Ty("TaskInfo"), method |-> "DELETE", url |-> Url("/distinct-attribute"),
     body |-> JNull, expect |-> 202]

\* Index::reset_searchable_attributes
reset_searchable_attributes_request ==
    [ty |-> Ty("TaskInfo"), method |-> "DELETE", url |-> Url("/searchable-attributes"),
     body |-> JNull, expect |-> 202]

\* Index::reset_displayed_attributes
reset_displayed_attributes_request ==
    [ty |-> Ty("TaskInfo"), method |-> "DELETE", url |-> Url("/displayed-attributes"),
     body |-> JNull, expect |-> 202]

\* Index::reset_faceting
reset_faceting_request ==
    [ty |-> Ty("TaskInfo"), method |-> "DELETE", url |-> Url("/faceting"),
     body |-> JNull, expect |-> 202]

\* reset_typo_tolerance addressing the faceting group.
reset_typo_tolerance_request_on_faceting ==
    [ty |-> Ty("TaskInfo"), method |-> "DELETE", url |-> Url("/faceting"),
     body |-> JNull, expect |-> 202]

\* Index::reset_typo_tolerance
reset_typo_tolerance_request ==
    [ty |-> Ty("TaskInfo"), method |-> "DELETE", url |-> Url("/typo-tolerance"),
     body |-> JNull, expect |-> 202]

(***************************************************************************)
(* The codec on its own: values are encoded, documents received and        *)
(* decoded.                                                                *)
(***************************************************************************)
\* Without(doc, key): the object doc with the key removed.
Without(doc, key) == JObj([k \in DOMAIN doc.o \ {key} |-> doc.o[k]])

\* Values a key of a response may hold: a count, and values that are none.
IllTypedValues == <<JNum(11), JStr("11"), JNull>>

\* Pagination and faceting documents a service may answer with.
PaginationResponses ==
    {JObj([k \in {"maxTotalHits"} |-> IllTypedValues[i]]) : i \in DOMAIN IllTypedValues}
FacetingResponses ==
    {JObj([k \in {"maxValuesPerFacet"} |-> IllTypedValues[i]]) : i \in DOMAIN IllTypedValues}

\* Typo tolerance documents a service may answer with: complete ones, ones
\* that lack one key, and one whose word sizes are null.
TypoResponses ==
    LET full == {serialize(Ty("TypoToleranceSettings"), with_enabled(TypoToleranceSettings_new, b)) :
                    b \in BOOLEAN}
        sizes == JObj([k \in {"oneTypo", "twoTypos"} |-> JNull])
    IN  full \cup {Without(d, k) : d \in full, k \in DOMAIN ServiceDefault.o["typoTolerance"].o}
             \cup {JObj([d.o EXCEPT !["enabled"] = IllTypedValues[i]]) :
                       d \in full, i \in {1, 2}}
             \cup {JObj([ServiceDefault.o["typoTolerance"].o EXCEPT !["minWordSizeForTypos"] = sizes])}

\* A Settings document with every key but those of absent, and null under
\* those of nulled.
Shape(absent, nulled) ==
    LET full == [ServiceDefault.o EXCEPT !["distinctAttribute"] = JStr("id")]
    IN  JObj([k \in DOMAIN full \ absent |-> IF k \in nulled THEN JNull ELSE full[k]])

\* Settings documents a service may answer with: one with every key, one with
\* none, and three in which each key is in turn absent, null and present.
SettingsResponses ==
    LET lists == {"stopWords", "rankingRules", "distinctAttribute", "synonyms"}
        attrs == {"filterableAttributes", "sortableAttributes", "searchableAttributes",
                  "displayedAttributes"}
        groups == {"pagination", "faceting", "typoTolerance"}
    IN  {Shape({}, {}), EmptyObj, Shape(lists, attrs), Shape(attrs, groups),
         Shape(groups, lists)}

\* The values of the payload type of a Setting<T>.
PayloadInputs(T) ==
    IF T.c = "bool" THEN BOOLEAN ELSE {Some(TRUE), Some(FALSE), None}

\* cell = cell.or_reset(val)
call_or_reset ==
    /\ cell.ty.c = "Setting"
    /\ \E val \in PayloadInputs(cell.ty.of) :
           /\ cell' = [cell EXCEPT !.s = or_reset(cell.s, val)]
           /\ hist' = [on |-> "Setting", field |-> "or_reset", arg |-> val, before |-> cell.s]
    /\ UNCHANGED <<settings, typo, calls, wire, decoded, service, tasks, nextUid, applied>>

\* get_typo_tolerance receives the body of the response.
receive_typo_response ==
    /\ \E d \in TypoResponses :
           wire' = [from |-> "service", ty |-> Ty("TypoToleranceSettings"), src |-> JNull,
                    doc |-> d, op |-> "get_typo_tolerance",
                    req |-> get_typo_tolerance_request]
    /\ UNCHANGED <<settings, typo, cell, calls, hist, decoded, service, tasks, nextUid, applied>>

\* The body of the response to op is handed to the decoder.
Received(op, req, d) ==
    wire' = [from |-> "service", ty |-> req.ty, src |-> JNull, doc |-> d, op |-> op, req |-> req]

\* get_pagination, get_faceting, get_settings receive the body of the response.
receive_response ==
    /\ \/ \E d \in PaginationResponses : Received("get_pagination", get_pagination_request, d)
       \/ \E d \in FacetingResponses : Received("get_faceting", get_faceting_request, d)
       \/ \E d \in SettingsResponses : Received("get_settings", get_settings_request, d)
    /\ UNCHANGED <<settings, typo, cell, calls, hist, decoded, service, tasks, nextUid, applied>>

InitCodec ==
    /\ \/ /\ typo \in TypoInputs
          /\ settings \in {Settings_new, with_typo_tolerance(Settings_new, typo)}
          /\ cell = NoCell
       \/ /\ typo = TypoToleranceSettings_new
          /\ settings = Settings_new
          /\ \/ cell \in [ty : {SettingOf(Ty("bool"))}, s : SettingBoolInputs]
             \/ cell \in [ty : {SettingOf(OptionOf(Ty("bool")))}, s : SettingOptionBoolInputs]
    /\ calls = 0
    /\ hist = NoHist
    /\ wire = NoWire
    /\ decoded = NoDecoded
    /\ service = ServiceDefault
    /\ tasks = <<>>
    /\ nextUid = 0
    /\ applied = NoApplied

NextCodec ==
    \/ serialize_typo
    \/ serialize_settings
    \/ serialize_setting
    \/ call_or_reset
    \/ receive_typo_response
    \/ receive_response
    \/ deserialize_wire

SpecCodec == InitCodec /\ [][NextCodec]_vars

(***************************************************************************)
(* The service's side of a request.  A write is accepted as a task and     *)
(* applied later, in the order of acceptance; a read answers with the      *)
(* current resolved value.                                                 *)
(***************************************************************************)
MaxTasks == 1

\* The group a URL addresses: "" is the whole settings document.
PathGroup(url) ==
    CASE url = Url("") -> ""
      [] url = Url("/synonyms") -> "synonyms"
      [] url = Url("/pagination") -> "pagination"
      [] url = Url("/stop-words") -> "stopWords"
      [] url = Url("/ranking-rules") -> "rankingRules"
      [] url = Url("/filterable-attributes") -> "filterableAttributes"
      [] url = Url("/sortable-attributes") -> "sortableAttributes"
      [] url = Url("/distinct-attribute") -> "distinctAttribute"
      [] url = Url("/searchable-attributes") -> "searchableAttributes"
      [] url = Url("/displayed-attributes") -> "displayedAttributes"
      [] url = Url("/faceting") -> "faceting"
      [] url = Url("/typo-tolerance") -> "typoTolerance"
      [] OTHER -> "?"

\* The nodes of the settings document that are patched field by field.
CompositeNodes == {"", "pagination", "faceting", "typoTolerance", "minWordSizeForTypos"}

\* patch(G, partial): null restores the default, a composite node merges the
\* fields that are present and keeps the others, anything else is replaced whole.
RECURSIVE Merge(_, _, _, _)
Merge(node, cur, p, def) ==
    IF p.j = "null" THEN def
    ELSE IF node \in CompositeNodes /\ p.j = "obj"
         THEN JObj([k \in DOMAIN cur.o |->
                  IF k \in DOMAIN p.o THEN Merge(k, cur.o[k], p.o[k], def.o[k]) ELSE cur.o[k]])
         ELSE p

\* replace(G, value): what is not present in value falls back to the default.
Replace(node, p, def) == Merge(node, def, p, def)

\* reset(G)
Restore(def) == def

\* The document after a write request is applied to doc.
ServiceApply(doc, req) ==
    LET g == PathGroup(req.url)
        At(f(_, _, _)) ==
            IF g = "" THEN f(doc, req.body, ServiceDefault)
            ELSE JObj([doc.o EXCEPT ![g] = f(@, req.body, ServiceDefault.o[g])])
    IN  CASE req.method = "PATCH" -> At(LAMBDA cur, p, def : Merge(g, cur, p, def))
          [] req.method = "PUT" -> At(LAMBDA cur, p, def : Replace(g, p, def))
          [] req.method = "DELETE" -> At(LAMBDA cur, p, def : Restore(def))

\* The rule the service enforces on a document: oneTypo <= twoTypos.
ServiceValid(doc) ==
    LET m == doc.o["typoTolerance"].o["minWordSizeForTypos"].o
    IN  (m["oneTypo"].j = "num" /\ m["twoTypos"].j = "num") => m["oneTypo"].n <= m["twoTypos"].n

\* The answer to a read request.
ServiceRead(doc, req) ==
    LET g == PathGroup(req.url) IN IF g = "" THEN doc ELSE doc.o[g]

\* request(url, key, Method::Get, 200): the response body decoded at the output type.
Read(op, req) ==
    /\ wire' = [from |-> "service", ty |-> req.ty, src |-> JNull,
                doc |-> ServiceRead(service, req), op |-> op, req |-> req]
    /\ decoded' = [from |-> "service", ty |-> req.ty, src |-> JNull,
                   doc |-> ServiceRead(service, req),
                   res |-> deserialize(req.ty, ServiceRead(service, req))]
    /\ UNCHANGED <<settings, typo, cell, calls, hist, service, tasks, nextUid, applied>>

\* A write whose answer is the applied result: the service changes its
\* settings before it answers, and keeps no task.
Dispatch_applied_at_once(op, req, arg) ==
    /\ nextUid < MaxTasks
    /\ service' = ServiceApply(service, req)
    /\ nextUid' = nextUid + 1
    /\ UNCHANGED <<settings, typo, cell, calls, hist, wire, decoded, tasks, applied>>

\* request(url, key, Method::Put/Patch/Delete, 202): the service accepts the
\* write as a task and answers with its uid.  The caller's argument is kept
\* under the operation's name: arguments of different operations have
\* different types and are never compared with each other.
Dispatch(op, req, arg) ==
    /\ nextUid < MaxTasks
    /\ tasks' = Append(tasks, [uid |-> nextUid, arg |-> <<op, arg>>, op |-> op, req |-> req])
    /\ nextUid' = nextUid + 1
    /\ UNCHANGED <<settings, typo, cell, calls, hist, wire, decoded, service, applied>>

\* The service applies the oldest accepted task; a task whose result breaks the
\* service's rule fails and changes nothing.
apply_task ==
    /\ tasks # <<>>
    /\ LET t == Head(tasks)
           after == ServiceApply(service, t.req)
       IN  /\ service' = IF ServiceValid(after) THEN after ELSE service
           /\ applied' = [uid |-> t.uid, op |-> t.op, req |-> t.req, arg |-> t.arg[2],
                          before |-> service,
                          status |-> IF ServiceValid(after) THEN "succeeded" ELSE "failed"]
    /\ tasks' = Tail(tasks)
    /\ UNCHANGED <<settings, typo, cell, calls, hist, wire, decoded, nextUid>>

\* What callers pass to the write operations.
SettingsRequests ==
    {Settings_new,
     with_pagination(with_stop_words(Settings_new, <<"a", "the", "of">>),
                     [max_total_hits |-> 100]),
     with_faceting(Settings_new, [max_values_per_facet |-> 5]),
     with_typo_tolerance(Settings_new, with_enabled(TypoToleranceSettings_new, FALSE))}

TypoRequests ==
    {with_enabled(TypoToleranceSettings_new, TRUE),
     with_enabled(with_disable_on_attributes(TypoToleranceSettings_new, <<"title">>), FALSE),
     [TypoToleranceSettings_new EXCEPT !.enabled = Reset],
     [TypoToleranceSettings_new EXCEPT !.enabled = NotSet],
     with_min_word_size_for_typos(TypoToleranceSettings_new,
                                  [one_typo |-> Some(4), two_typos |-> None]),
     with_min_word_size_for_typos(TypoToleranceSettings_new,
                                  [one_typo |-> Some(9), two_typos |-> Some(5)])}

SynonymRequests == {[k \in {"wolverine"} |-> <<"xmen", "logan">>]}
WordRequests == {<<"the", "an">>}
RankingRequests == {<<"typo", "words">>}
AttrRequests == {<<"title">>}
DistinctRequests == {"id"}
PaginationRequests == {[max_total_hits |-> 11]}
FacetingRequests == {[max_values_per_facet |-> 5]}

\* The settings an index may hold when the caller starts: those of a fresh
\* index, and those left by earlier writes.
ServiceStates ==
    {ServiceDefault,
     ServiceApply(
         ServiceApply(ServiceDefault,
             set_typo_tolerance_request(
                 with_enabled(
                     with_disable_on_attributes(TypoToleranceSettings_new, <<"title">>),
                     FALSE))),
         set_settings_request(
             with_pagination(with_stop_words(Settings_new, <<"a", "the", "of">>),
                             [max_total_hits |-> 100])))}

get_settings == Read("get_settings", get_settings_request)

get_synonyms == Read("get_synonyms", get_synonyms_request)

get_pagination == Read("get_pagination", get_pagination_request)

get_stop_words == Read("get_stop_words", get_stop_words_request)

get_ranking_rules == Read("get_ranking_rules", get_ranking_rules_request)

get_filterable_attributes == Read("get_filterable_attributes", get_filterable_attributes_request)

get_sortable_attributes == Read("get_sortable_attributes", get_sortable_attributes_request)

get_distinct_attribute == Read("get_distinct_attribute", get_distinct_attribute_request)

get_searchable_attributes == Read("get_searchable_attributes", get_searchable_attributes_request)

get_displayed_attributes == Read("get_displayed_attributes", get_displayed_attributes_request)

get_faceting == Read("get_faceting", get_faceting_request)

get_typo_tolerance == Read("get_typo_tolerance", get_typo_tolerance_request)

set_settings ==
    \E v \in SettingsRequests : Dispatch("set_settings", set_settings_request(v), v)

set_synonyms ==
    \E v \in SynonymRequests : Dispatch("set_synonyms", set_synonyms_request(v), v)

set_pagination ==
    \E v \in PaginationRequests : Dispatch("set_pagination", set_pagination_request(v), v)

set_stop_words ==
    \E v \in WordRequests : Dispatch("set_stop_words", set_stop_words_request(v), v)

set_ranking_rules ==
    \E v \in RankingRequests : Dispatch("set_ranking_rules", set_ranking_rules_request(v), v)

set_filterable_attributes ==
    \E v \in AttrRequests : Dispatch("set_filterable_attributes", set_filterable_attributes_request(v), v)

set_sortable_attributes ==
    \E v \in AttrRequests : Dispatch("set_sortable_attributes", set_sortable_attributes_request(v), v)

set_distinct_attribute ==
    \E v \in DistinctRequests : Dispatch("set_distinct_attribute", set_distinct_attribute_request(v), v)

set_searchable_attributes ==
    \E v \in AttrRequests : Dispatch("set_searchable_attributes", set_searchable_attributes_request(v), v)

set_displayed_attributes ==
    \E v \in AttrRequests : Dispatch("set_displayed_attributes", set_displayed_attributes_request(v), v)

set_faceting ==
    \E v \in FacetingRequests : Dispatch("set_faceting", set_faceting_request(v), v)

set_typo_tolerance ==
    \E v \in TypoRequests : Dispatch("set_typo_tolerance", set_typo_tolerance_request(v), v)

reset_settings == Dispatch("reset_settings", reset_settings_request, JNull)

reset_synonyms == Dispatch("reset_synonyms", reset_synonyms_request, JNull)

reset_pagination == Dispatch("reset_pagination", reset_pagination_request, JNull)

reset_stop_words == Dispatch("reset_stop_words", reset_stop_words_request, JNull)

reset_ranking_rules == Dispatch("reset_ranking_rules", reset_ranking_rules_request, JNull)

reset_filterable_attributes == Dispatch("reset_filterable_attributes", reset_filterable_attributes_request, JNull)

reset_sortable_attributes == Dispatch("reset_sortable_attributes", reset_sortable_attributes_request, JNull)

reset_distinct_attribute == Dispatch("reset_distinct_attribute", reset_distinct_attribute_request, JNull)

reset_searchable_attributes == Dispatch("reset_searchable_attributes", reset_searchable_attributes_request, JNull)

reset_displayed_attributes == Dispatch("reset_displayed_attributes", reset_displayed_attributes_request, JNull)

reset_faceting == Dispatch("reset_faceting", reset_faceting_request, JNull)

reset_typo_tolerance == Dispatch("reset_typo_tolerance", reset_typo_tolerance_request, JNull)

Init ==
    /\ settings = Settings_new
    /\ typo = TypoToleranceSettings_new
    /\ cell = NoCell
    /\ calls = 0
    /\ hist = NoHist
    /\ wire = NoWire
    /\ decoded = NoDecoded
    /\ service \in ServiceStates
    /\ tasks = <<>>
    /\ nextUid = 0
    /\ applied = NoApplied

Next ==
    \/ get_settings
    \/ get_synonyms
    \/ get_pagination
    \/ get_stop_words
    \/ get_ranking_rules
    \/ get_filterable_attributes
    \/ get_sortable_attributes
    \/ get_distinct_attribute
    \/ get_searchable_attributes
    \/ get_displayed_attributes
    \/ get_faceting
    \/ get_typo_tolerance
    \/ set_settings
    \/ set_synonyms
    \/ set_pagination
    \/ set_stop_words
    \/ set_ranking_rules
    \/ set_filterable_attributes
    \/ set_sortable_attributes
    \/ set_distinct_attribute
    \/ set_searchable_attributes
    \/ set_displayed_attributes
    \/ set_faceting
    \/ set_typo_tolerance
    \/ reset_settings
    \/ reset_synonyms
    \/ reset_pagination
    \/ reset_stop_words
    \/ reset_ranking_rules
    \/ reset_filterable_attributes
    \/ reset_sortable_attributes
    \/ reset_distinct_attribute
    \/ reset_searchable_attributes
    \/ reset_displayed_attributes
    \/ reset_faceting
    \/ reset_typo_tolerance
    \/ apply_task

Spec == Init /\ [][Next]_vars

\* The write path alone: the calls that the service accepts as tasks, and the
\* service applying them.
NextWrites ==
    \/ set_settings
    \/ set_synonyms
    \/ set_pagination
    \/ set_stop_words
    \/ set_ranking_rules
    \/ set_filterable_attributes
    \/ set_sortable_attributes
    \/ set_distinct_attribute
    \/ set_searchable_attributes
    \/ set_displayed_attributes
    \/ set_faceting
    \/ set_typo_tolerance
    \/ reset_settings
    \/ reset_synonyms
    \/ reset_pagination
    \/ reset_stop_words
    \/ reset_ranking_rules
    \/ reset_filterable_attributes
    \/ reset_sortable_attributes
    \/ reset_distinct_attribute
    \/ reset_searchable_attributes
    \/ reset_displayed_attributes
    \/ reset_faceting
    \/ reset_typo_tolerance
    \/ apply_task

\* The service processes its tasks fairly: an accepted task is not left
\* waiting for ever.
FairSpec == Init /\ [][NextWrites]_vars /\ WF_tasks(apply_task)

(***************************************************************************)
(* Properties of the codec.                                                *)
(***************************************************************************)
\* The typo-tolerance document inside the document on the wire, when there is one.
TypoDocOnWire ==
    IF wire.ty.c = "TypoToleranceSettings" THEN wire.doc
    ELSE IF wire.ty.c = "Settings" /\ HasKey(wire.doc, "typoTolerance")
         THEN wire.doc.o["typoTolerance"]
         ELSE JNull

\* The TypoToleranceSettings value the document on the wire was encoded from.
TypoSrcOnWire ==
    IF wire.ty.c = "TypoToleranceSettings" THEN Some(wire.src)
    ELSE IF wire.ty.c = "Settings" THEN wire.src.typo_tolerance ELSE None

EncodedTypo == wire.from = "client" /\ TypoSrcOnWire.tag = "Some"

\* The keys of a typo-tolerance document other than enabled are present and
\* hold values of their fields' types.
RestWellTyped(doc) ==
    /\ doc.j = "obj"
    /\ HasKey(doc, "disableOnAttributes") /\ VecString_deserialize(doc.o["disableOnAttributes"]).ok
    /\ HasKey(doc, "disableOnWords") /\ VecString_deserialize(doc.o["disableOnWords"]).ok
    /\ HasKey(doc, "minWordSizeForTypos")
    /\ MinWordSizeForTypos_deserialize(doc.o["minWordSizeForTypos"]).ok

\* C1: the encoding of a TypoToleranceSettings whose enabled is NotSet, on its
\* own or nested in a Settings, has no key "enabled" at all.
C1_OmissionOnNotSet ==
    (EncodedTypo /\ TypoSrcOnWire.v.enabled.tag = "NotSet")
        => (TypoDocOnWire.j = "obj" /\ "enabled" \notin DOMAIN TypoDocOnWire.o)

C1_Witness ==
    /\ wire.from = "client" /\ wire.ty.c = "Settings"
    /\ wire.src.typo_tolerance.tag = "Some"
    /\ wire.src.typo_tolerance.v.enabled.tag = "NotSet"
    /\ HasKey(wire.doc, "typoTolerance")

\* C2: the encoding of a TypoToleranceSettings whose enabled is Reset has the key
\* "enabled" with the value null, and so differs from the encoding of the same
\* value with enabled NotSet.
C2_ResetIsExplicitNull ==
    (EncodedTypo /\ TypoSrcOnWire.v.enabled.tag = "Reset")
        => /\ HasKey(TypoDocOnWire, "enabled")
           /\ TypoDocOnWire.o["enabled"] = JNull
           /\ TypoDocOnWire #
                  TypoToleranceSettings_serialize([TypoSrcOnWire.v EXCEPT !.enabled = NotSet])

C2_Witness ==
    /\ wire.from = "client" /\ wire.ty.c = "TypoToleranceSettings"
    /\ wire.src.enabled.tag = "Reset"
    /\ HasKey(wire.doc, "enabled")

\* C3 (as claimed): decoding a typo-tolerance document without the key "enabled",
\* the other keys present and well typed, succeeds with enabled = NotSet.
C3_DefaultOnAbsence ==
    (decoded.ty.c = "TypoToleranceSettings" /\ RestWellTyped(decoded.doc) /\ ~HasKey(decoded.doc, "enabled"))
        => (decoded.res.ok /\ decoded.res.v.enabled = NotSet)

\* C4 (as claimed): decoding the encoding of a TypoToleranceSettings value gives
\* back the same enabled, whichever of Set(true), Set(false), Reset, NotSet it is.
C4_SymmetricRoundTrip ==
    (decoded.from = "client" /\ decoded.ty.c = "TypoToleranceSettings")
        => (decoded.res.ok /\ decoded.res.v.enabled = decoded.src.enabled)

\* C5: when the key of a Setting<bool> field is present, null decodes to Reset, a
\* boolean b decodes to Set(b), and nothing decodes to NotSet.
C5_PresentKeyDecoding ==
    (decoded.ty.c = "TypoToleranceSettings" /\ RestWellTyped(decoded.doc) /\ HasKey(decoded.doc, "enabled"))
        => LET e == decoded.doc.o["enabled"]
           IN  /\ e.j = "null" => (decoded.res.ok /\ decoded.res.v.enabled = Reset)
               /\ e.j = "bool" => (decoded.res.ok /\ decoded.res.v.enabled = Set(e.b))
               /\ decoded.res.ok => decoded.res.v.enabled.tag # "NotSet"

C5_Witness ==
    /\ decoded.ty.c = "TypoToleranceSettings" /\ HasKey(decoded.doc, "enabled")
    /\ decoded.doc.o["enabled"].j = "null"
    /\ decoded.res.ok

\* C6 (as claimed): decode(encode(Set(x))) = Set(x) for every payload type, also
\* one whose values may encode as null.
C6_RoundTripOfSetAnyPayload ==
    (decoded.from = "client" /\ decoded.ty.c = "Setting"
        /\ decoded.src.tag = "Set")
        => decoded.res = Ok(decoded.src)

\* C6 (amended): decode(encode(Set(x))) = Set(x) whenever the encoding of x is not
\* null; a Set(x) whose x encodes as null (Set(None)) decodes as Reset.
C6_RoundTripOfSet ==
    (decoded.from = "client" /\ decoded.ty.c = "Setting"
        /\ decoded.src.tag = "Set")
        => IF decoded.doc.j = "null"
           THEN decoded.res = Ok(Reset)
           ELSE decoded.res = Ok(decoded.src)

C6_Witness ==
    /\ decoded.from = "client" /\ decoded.ty = SettingOf(OptionOf(Ty("bool")))
    /\ decoded.src.tag = "Set" /\ decoded.src.v.tag = "Some"
    /\ decoded.res.ok

(***************************************************************************)
(* Properties of the aggregates and their builders.                        *)
(***************************************************************************)
\* The key of each group in the aggregate's document (the endpoint table).
AggregateKey ==
    [synonyms |-> "synonyms", stop_words |-> "stopWords", ranking_rules |-> "rankingRules",
     filterable_attributes |-> "filterableAttributes",
     sortable_attributes |-> "sortableAttributes",
     distinct_attribute |-> "distinctAttribute",
     searchable_attributes |-> "searchableAttributes",
     displayed_attributes |-> "displayedAttributes",
     pagination |-> "pagination", faceting |-> "faceting", typo_tolerance |-> "typoTolerance"]

ScenarioA ==
    with_pagination(with_stop_words(Settings_new, <<"a", "the", "of">>),
                    [max_total_hits |-> 100])

ScenarioADoc ==
    JObj([k \in {"stopWords", "pagination"} |->
        IF k = "stopWords" THEN JArr(<<JStr("a"), JStr("the"), JStr("of")>>)
        ELSE JObj([m \in {"maxTotalHits"} |-> JNum(100)])])

\* C7: the encoding of a Settings has exactly the camelCase keys of its Some
\* groups; Settings::new() encodes to the empty document, and stop words
\* ["a","the","of"] with pagination 100 to exactly those two entries.
C7_ExactlyThePresentKeys ==
    (wire.from = "client" /\ wire.ty.c = "Settings")
        => /\ wire.doc.j = "obj"
           /\ DOMAIN wire.doc.o =
                  {AggregateKey[f] : f \in {g \in SettingsFields : wire.src[g].tag = "Some"}}
           /\ \A k \in DOMAIN wire.doc.o : wire.doc.o[k].j # "null"
           /\ wire.src = Settings_new => wire.doc = EmptyObj
           /\ wire.src = ScenarioA => wire.doc = ScenarioADoc

C7_Witness ==
    wire.from = "client" /\ wire.ty.c = "Settings" /\ wire.src = ScenarioA

\* C10: after a with_X call on a Settings, field X is Some(the argument) and the ten
\* other fields are those of the receiver; after a with_X call on a
\* TypoToleranceSettings, its three other fields are those of the receiver.
C10_SingleFieldReplacement ==
    /\ hist.on = "Settings"
           => /\ settings[hist.field] = Some(hist.arg)
              /\ \A f \in SettingsFields \ {hist.field} : settings[f] = hist.before[f]
    /\ hist.on = "TypoToleranceSettings"
           => \A f \in TypoFields \ {hist.field} : typo[f] = hist.before[f]

C10_Witness ==
    /\ hist.on = "Settings" /\ hist.field = "stop_words"
    /\ hist.before.pagination.tag = "Some"
    /\ settings.pagination.tag = "Some"

\* ---------------------------------------------------------------------------
\* Properties of the calls to the service (Spec)
\* ---------------------------------------------------------------------------

\* The last applied task was accepted from the named operation.
Applied(op) == applied.uid >= 0 /\ applied.op = op

\* The sub-fields of the typo tolerance group other than enabled.
TypoRest == {"disableOnAttributes", "disableOnWords", "minWordSizeForTypos"}

\* C8: once the task of set_settings(s) has been applied, every group whose
\* field in s is None has the value it had before the call, and the task of
\* set_settings(Settings::new()) leaves the whole document as it was.
C8_PartialUpdateAtDispatch ==
    Applied("set_settings")
        => /\ \A f \in SettingsFields :
                 applied.arg[f].tag = "None"
                     => service.o[AggregateKey[f]] = applied.before.o[AggregateKey[f]]
           /\ applied.arg = Settings_new => service = applied.before

\* C8: a set_settings that changed one group was applied to an index whose
\* typo tolerance was not the default and was not named in the call.
C8_Witness ==
    /\ Applied("set_settings")
    /\ applied.status = "succeeded"
    /\ applied.arg.typo_tolerance.tag = "None"
    /\ applied.arg.faceting.tag = "Some"
    /\ applied.before.o["typoTolerance"] # ServiceDefault.o["typoTolerance"]
    /\ service # applied.before
    /\ service.o["typoTolerance"] = applied.before.o["typoTolerance"]

\* C9: once the task of set_typo_tolerance(TypoToleranceSettings::new()
\* .with_enabled(b)) has been applied, the service's disableOnAttributes,
\* disableOnWords and minWordSizeForTypos are what they were before the call.
C9_PatchTouchesOnlyWhatWasSet ==
    (/\ Applied("set_typo_tolerance")
     /\ \E b \in BOOLEAN : applied.arg = with_enabled(TypoToleranceSettings_new, b))
        => \A k \in TypoRest :
               service.o["typoTolerance"].o[k] = applied.before.o["typoTolerance"].o[k]

\* ---------------------------------------------------------------------------
\* Properties of chains of builder calls (SpecBuilder)
\* ---------------------------------------------------------------------------

\* The last two calls were both made on the Settings value.
TwoSettingsCalls == hist.on = "Settings" /\ hist.prev.on = "Settings"

\* The value the last two calls give when they are made in the other order.
Swapped ==
    Settings_with(Settings_with(hist.prev.before, hist.field, hist.arg),
                  hist.prev.field, hist.prev.arg)

\* C11: two mutators on different fields commute: s.with_X(a).with_Y(b) and
\* s.with_Y(b).with_X(a) are equal field for field and encode to the same
\* document.
C11_DisjointFieldsCommute ==
    (TwoSettingsCalls /\ hist.field # hist.prev.field)
        => /\ \A f \in SettingsFields : settings[f] = Swapped[f]
           /\ Settings_serialize(settings) = Settings_serialize(Swapped)

\* C11: with_stop_words then with_pagination were called on one value.
C11_Witness ==
    /\ TwoSettingsCalls
    /\ hist.prev.field = "stop_words" /\ hist.prev.arg = <<"a", "the", "of">>
    /\ hist.field = "pagination"
    /\ settings.stop_words = Some(<<"a", "the", "of">>)
    /\ settings.pagination = Some(hist.arg)

\* C12: two calls of one mutator resolve last-write-wins: s.with_X(a).with_X(b)
\* equals s.with_X(b), and the field holds exactly b, with nothing of a.
C12_LastWriteWins ==
    (TwoSettingsCalls /\ hist.field = hist.prev.field)
        => /\ settings = Settings_with(hist.prev.before, hist.field, hist.arg)
           /\ settings[hist.field] = Some(hist.arg)

\* C12: with_synonyms was called with a non-empty map and then with the empty
\* map.
C12_Witness ==
    /\ TwoSettingsCalls
    /\ hist.field = "synonyms" /\ hist.prev.field = "synonyms"
    /\ DOMAIN hist.prev.arg # {} /\ DOMAIN hist.arg = {}
    /\ settings.synonyms = Some(<<>>)

\* ---------------------------------------------------------------------------
\* Properties of a write followed by a read (Spec)
\* ---------------------------------------------------------------------------

\* The settings groups that have operations of their own.
Groups ==
    {"synonyms", "pagination", "stop_words", "ranking_rules", "filterable_attributes",
     "sortable_attributes", "distinct_attribute", "searchable_attributes",
     "displayed_attributes", "faceting", "typo_tolerance"}

\* The request of get_<g>.
GetRequest(g) ==
    CASE g = "synonyms" -> get_synonyms_request
      [] g = "pagination" -> get_pagination_request
      [] g = "stop_words" -> get_stop_words_request
      [] g = "ranking_rules" -> get_ranking_rules_request
      [] g = "filterable_attributes" -> get_filterable_attributes_request
      [] g = "sortable_attributes" -> get_sortable_attributes_request
      [] g = "distinct_attribute" -> get_distinct_attribute_request
      [] g = "searchable_attributes" -> get_searchable_attributes_request
      [] g = "displayed_attributes" -> get_displayed_attributes_request
      [] g = "faceting" -> get_faceting_request
      [] g = "typo_tolerance" -> get_typo_tolerance_request

\* What get_<g> returns when it is called in the current state.
ReadNow(g) == deserialize(GetRequest(g).ty, ServiceRead(service, GetRequest(g)))

\* The last read was get_<g>, and it was made in the current state of the service.
JustRead(g) ==
    /\ decoded.from = "service"
    /\ decoded.ty = GetRequest(g).ty
    /\ decoded.doc = ServiceRead(service, GetRequest(g))
    /\ decoded.res = ReadNow(g)

\* The value a caller of get_<g> holds when the group holds v: get_distinct_attribute
\* returns an Option<String>, the other reads return the type the write takes.
AsRead(g, v) == IF g = "distinct_attribute" THEN Some(v) ELSE v

\* The task applied last is the successful set_<g>.
SetApplied(g) == Applied("set_" \o g) /\ applied.status = "succeeded"

\* A typo tolerance value every sub-field of which holds a concrete value.
Concrete(typo_tolerance) ==
    /\ typo_tolerance.enabled.tag = "Set"
    /\ typo_tolerance.min_word_size_for_typos.one_typo.tag = "Some"
    /\ typo_tolerance.min_word_size_for_typos.two_typos.tag = "Some"

\* C13 as stated: once the task of set_<g>(v) has succeeded and no later write
\* was applied, get_<g> returns a value equal to v, whatever v is.
C13_SetThenReadAnyValue ==
    \A g \in Groups : SetApplied(g) => ReadNow(g) = Ok(AsRead(g, applied.arg))

\* C13: once the task of set_<g>(v) has succeeded and no later write was
\* applied, get_<g> returns a value equal to v, provided that every sub-field
\* of a typo tolerance v holds a concrete value (enabled is Set(b), one_typo
\* and two_typos are Some).
C13_SetThenRead ==
    \A g \in Groups :
        (SetApplied(g) /\ (g = "typo_tolerance" => Concrete(applied.arg)))
            => ReadNow(g) = Ok(AsRead(g, applied.arg))

\* C13: get_stop_words was called after set_stop_words replaced a list that
\* was not empty and shared a word with the new one.
C13_Witness ==
    /\ SetApplied("stop_words")
    /\ applied.before.o["stopWords"] = JArr(<<JStr("a"), JStr("the"), JStr("of")>>)
    /\ applied.arg = <<"the", "an">>
    /\ JustRead("stop_words")
    /\ decoded.res = Ok(<<"the", "an">>)

\* The groups whose default the client's tests state, and that default.
DefaultedGroups == {"pagination", "faceting", "typo_tolerance"}

DocumentedDefault(g) ==
    CASE g = "pagination" -> [max_total_hits |-> 1000]
      [] g = "faceting" -> [max_values_per_facet |-> 100]
      [] g = "typo_tolerance" -> TypoToleranceSettings_new

\* C14: once the task of reset_<g> has been applied and no later write was
\* applied, get_<g> returns the documented default: max_total_hits = 1000,
\* max_values_per_facet = 100, TypoToleranceSettings::new().
C14_ResetThenReadDefault ==
    \A g \in DefaultedGroups :
        Applied("reset_" \o g) => ReadNow(g) = Ok(DocumentedDefault(g))

\* C14: get_typo_tolerance was called after reset_typo_tolerance was applied
\* to an index whose typo tolerance earlier writes had changed.
C14_Witness ==
    /\ Applied("reset_typo_tolerance")
    /\ applied.status = "succeeded"
    /\ applied.before.o["typoTolerance"] # ServiceDefault.o["typoTolerance"]
    /\ JustRead("typo_tolerance")
    /\ decoded.res = Ok(TypoToleranceSettings_new)

\* C15: in every reachable state of the service, what get_typo_tolerance
\* returns has enabled = Set(b) for a boolean b, never Reset or NotSet; and
\* every value a get_typo_tolerance has returned is of that form.
C15_ReadsNeverYieldReset ==
    /\ ReadNow("typo_tolerance").ok
    /\ ReadNow("typo_tolerance").v.enabled \in {Set(TRUE), Set(FALSE)}
    /\ (decoded.from = "service" /\ decoded.ty = Ty("TypoToleranceSettings"))
           => (decoded.res.ok /\ decoded.res.v.enabled \in {Set(TRUE), Set(FALSE)})

\* C15: get_typo_tolerance was called after a patch that sent enabled = Reset
\* was applied to an index whose typo tolerance was disabled.
C15_Witness ==
    /\ SetApplied("typo_tolerance")
    /\ applied.arg.enabled = Reset
    /\ applied.before.o["typoTolerance"].o["enabled"] = JBool(FALSE)
    /\ JustRead("typo_tolerance")
    /\ decoded.res.v.enabled = Set(TRUE)

\* The index is as it was created: no settings write has been applied to it.
FreshIndex == applied.uid < 0 /\ service = ServiceDefault

\* C16: on a freshly created index get_pagination returns max_total_hits =
\* 1000, get_faceting returns max_values_per_facet = 100 and
\* get_typo_tolerance returns TypoToleranceSettings::default(): enabled =
\* Set(true), both lists empty, one_typo = Some(5), two_typos = Some(9).
C16_FreshIndexReadsDefaults ==
    FreshIndex
        => /\ ReadNow("pagination") = Ok([max_total_hits |-> 1000])
           /\ ReadNow("faceting") = Ok([max_values_per_facet |-> 100])
           /\ ReadNow("typo_tolerance") = Ok(TypoToleranceSettings_default)
           /\ TypoToleranceSettings_default =
                  [enabled |-> Set(TRUE), disable_on_attributes |-> <<>>,
                   disable_on_words |-> <<>>,
                   min_word_size_for_typos |-> [one_typo |-> Some(5), two_typos |-> Some(9)]]

\* C16: get_pagination was called on a freshly created index.
C16_Witness ==
    /\ FreshIndex
    /\ JustRead("pagination")
    /\ decoded.res = Ok([max_total_hits |-> 1000])

\* ---------------------------------------------------------------------------
\* Scenarios of the codec (SpecCodec)
\* ---------------------------------------------------------------------------

\* Scenario B: TypoToleranceSettings with enabled = Reset, the rest at its defaults.
ScenarioB == [TypoToleranceSettings_new EXCEPT !.enabled = Reset]

\* C17: Scenario B encodes to a document with exactly the keys enabled (null),
\* disableOnAttributes (empty list), disableOnWords (empty list) and
\* minWordSizeForTypos (an object), and that document decodes to a value with
\* enabled = Reset and the other three fields equal to the original.
C17_ScenarioB ==
    (decoded.from = "client" /\ decoded.ty.c = "TypoToleranceSettings" /\ decoded.src = ScenarioB)
        => /\ decoded.doc.j = "obj"
           /\ DOMAIN decoded.doc.o =
                  {"enabled", "disableOnAttributes", "disableOnWords", "minWordSizeForTypos"}
           /\ decoded.doc.o["enabled"] = JNull
           /\ decoded.doc.o["disableOnAttributes"] = JArr(<<>>)
           /\ decoded.doc.o["disableOnWords"] = JArr(<<>>)
           /\ decoded.doc.o["minWordSizeForTypos"].j = "obj"
           /\ decoded.res.ok
           /\ decoded.res.v.enabled = Reset
           /\ \A f \in TypoFields \ {"enabled"} : decoded.res.v[f] = ScenarioB[f]

\* C17: Scenario B was encoded and the document decoded.
C17_Witness ==
    /\ decoded.from = "client" /\ decoded.ty.c = "TypoToleranceSettings"
    /\ decoded.src = ScenarioB
    /\ decoded.res = Ok(ScenarioB)

\* C18: Scenario C: a typo tolerance response that lacks minWordSizeForTypos,
\* its other keys present and well typed, decodes successfully, and
\* min_word_size_for_typos of the result is {one_typo: 5, two_typos: 9}.
C18_ScenarioC ==
    (/\ decoded.from = "service" /\ decoded.ty.c = "TypoToleranceSettings"
     /\ decoded.doc.j = "obj"
     /\ DOMAIN decoded.doc.o = {"enabled", "disableOnAttributes", "disableOnWords"})
        => /\ decoded.res.ok
           /\ decoded.res.v.min_word_size_for_typos = MinWordSizeForTypos_default

\* ---------------------------------------------------------------------------
\* The endpoint table (Spec)
\* ---------------------------------------------------------------------------

\* The path suffix of a group; the whole aggregate has the empty suffix.
EndpointSuffix(g) ==
    CASE g = "settings" -> ""
      [] g = "synonyms" -> "/synonyms"
      [] g = "pagination" -> "/pagination"
      [] g = "stop_words" -> "/stop-words"
      [] g = "ranking_rules" -> "/ranking-rules"
      [] g = "filterable_attributes" -> "/filterable-attributes"
      [] g = "sortable_attributes" -> "/sortable-attributes"
      [] g = "distinct_attribute" -> "/distinct-attribute"
      [] g = "searchable_attributes" -> "/searchable-attributes"
      [] g = "displayed_attributes" -> "/displayed-attributes"
      [] g = "faceting" -> "/faceting"
      [] g = "typo_tolerance" -> "/typo-tolerance"

\* The groups that are written with PATCH; the others are written with PUT.
PatchedGroups == {"settings", "pagination", "faceting", "typo_tolerance"}

\* The method and the success status of an operation of the given kind.
EndpointMethod(kind, g) ==
    CASE kind = "get" -> "GET"
      [] kind = "set" -> IF g \in PatchedGroups THEN "PATCH" ELSE "PUT"
      [] kind = "reset" -> "DELETE"

EndpointStatus(kind) == IF kind = "get" THEN 200 ELSE 202

\* The request is the one the endpoint table gives for the operation.
Conforms(op, req) ==
    \E kind \in {"get", "set", "reset"} : \E g \in Groups \cup {"settings"} :
        /\ op = kind \o "_" \o g
        /\ req.method = EndpointMethod(kind, g)
        /\ req.expect = EndpointStatus(kind)
        /\ req.url = "http://localhost:7700/indexes/movies/settings" \o EndpointSuffix(g)

\* C19: every request an Index settings operation has issued, a read answered
\* or a write accepted or applied, has the method, the path and the expected
\* status of the endpoint table.
C19_EndpointTable ==
    /\ wire.from = "service" => Conforms(wire.op, wire.req)
    /\ \A i \in DOMAIN tasks : Conforms(tasks[i].op, tasks[i].req)
    /\ applied.uid >= 0 => Conforms(applied.op, applied.req)

\* C19: get_stop_words was answered, set_stop_words accepted and
\* reset_typo_tolerance applied.
C19_Witness ==
    /\ wire.from = "service" /\ wire.op = "get_stop_words"
    /\ wire.req.method = "GET" /\ wire.req.expect = 200
    /\ applied.uid >= 0 /\ applied.op = "set_stop_words"
    /\ applied.req.method = "PUT" /\ applied.req.expect = 202
    /\ applied.req.url = "http://localhost:7700/indexes/movies/settings/stop-words"

\* C20: or_reset(val) maps Reset to Set(val) and returns Set(x) and NotSet
\* unchanged; its result is never Reset, and applying it again, with any
\* value, gives the same result.
C20_OrReset ==
    hist.on = "Setting"
        => /\ hist.before = Reset => cell.s = Set(hist.arg)
           /\ hist.before # Reset => cell.s = hist.before
           /\ cell.s # Reset
           /\ \A val \in PayloadInputs(cell.ty.of) : or_reset(cell.s, val) = cell.s

\* C20: or_reset was called on Reset.
C20_Witness ==
    /\ hist.on = "Setting"
    /\ hist.before = Reset
    /\ cell.s = Set(hist.arg)

\* ---------------------------------------------------------------------------
\* A Setting<T> encoded on its own (SpecCodec)
\* ---------------------------------------------------------------------------

\* A Setting<T> that is no field of a struct was encoded.
EncodedBare == wire.from = "client" /\ wire.ty.c = "Setting"

\* C21: a Setting<T> serialized directly, with no skip_serializing_if gate,
\* gives null for Reset and for NotSet alike, so the two cannot be told apart
\* on the wire, and gives the encoding of x for Set(x).
C21_UngatedStatesCollapse ==
    EncodedBare
        => /\ wire.src.tag \in {"Reset", "NotSet"} => wire.doc = JNull
           /\ wire.src.tag = "Set" => wire.doc = serialize(wire.ty.of, wire.src.v)
           /\ serialize(wire.ty, Reset) = serialize(wire.ty, NotSet)

\* C21: a bare NotSet was encoded, as null.
C21_Witness ==
    /\ EncodedBare
    /\ wire.src = NotSet
    /\ wire.doc = JNull

\* ---------------------------------------------------------------------------
\* Decoding what the service answers (SpecCodec)
\* ---------------------------------------------------------------------------

\* A present key of the document holds a value that is none of its field's
\* type: a count that is no non-negative number, an enabled that is neither a
\* boolean nor null.
IllTyped(ty, doc) ==
    /\ doc.j = "obj"
    /\ \/ /\ ty.c = "PaginationSetting" /\ HasKey(doc, "maxTotalHits")
          /\ ~(doc.o["maxTotalHits"].j = "num" /\ doc.o["maxTotalHits"].n >= 0)
       \/ /\ ty.c = "FacetingSettings" /\ HasKey(doc, "maxValuesPerFacet")
          /\ ~(doc.o["maxValuesPerFacet"].j = "num" /\ doc.o["maxValuesPerFacet"].n >= 0)
       \/ /\ ty.c = "TypoToleranceSettings" /\ HasKey(doc, "enabled")
          /\ doc.o["enabled"].j \notin {"bool", "null"}

\* C22: decoding a document in which a present key holds a value that cannot
\* be converted to the field's type returns an error and no value: the field
\* is not replaced by a default, by NotSet or by Reset.
C22_DecodeErrorsSurfaced ==
    (decoded.from = "service" /\ IllTyped(decoded.ty, decoded.doc))
        => (~decoded.res.ok /\ "v" \notin DOMAIN decoded.res)

\* C22: a pagination response whose maxTotalHits is a string was decoded.
C22_Witness ==
    /\ decoded.from = "service" /\ decoded.ty.c = "PaginationSetting"
    /\ decoded.doc = JObj([k \in {"maxTotalHits"} |-> JStr("11")])
    /\ ~decoded.res.ok

\* ---------------------------------------------------------------------------
\* Values the builder yields (SpecBuilder)
\* ---------------------------------------------------------------------------

\* The sizes are out of order: one_typo > two_typos.
OutOfOrder(m) ==
    m.one_typo.tag = "Some" /\ m.two_typos.tag = "Some" /\ m.one_typo.v > m.two_typos.v

\* C23: building is total and validates nothing across fields:
\* with_min_word_size_for_typos stores whatever sizes it is given, also
\* one_typo > two_typos, with_typo_tolerance stores the value it is given, and
\* the encoding carries both sizes unchanged.
C23_NoLocalValidation ==
    /\ \A m \in MinWordSizeInputs :
           with_min_word_size_for_typos(typo, m) = [typo EXCEPT !.min_word_size_for_typos = m]
    /\ (hist.on = "TypoToleranceSettings" /\ hist.field = "min_word_size_for_typos")
           => typo.min_word_size_for_typos = hist.arg
    /\ (hist.on = "Settings" /\ hist.field = "typo_tolerance")
           => settings.typo_tolerance = Some(hist.arg)
    /\ EncodedTypo
           => LET m == TypoSrcOnWire.v.min_word_size_for_typos
                  d == TypoDocOnWire.o["minWordSizeForTypos"]
              IN  /\ m.one_typo.tag = "Some" => d.o["oneTypo"] = JNum(m.one_typo.v)
                  /\ m.two_typos.tag = "Some" => d.o["twoTypos"] = JNum(m.two_typos.v)

\* C23: sizes out of order were given to with_min_word_size_for_typos, the
\* value to with_typo_tolerance, and the aggregate was encoded.
C23_Witness ==
    /\ OutOfOrder(typo.min_word_size_for_typos)
    /\ hist.on = "Settings" /\ hist.field = "typo_tolerance"
    /\ settings.typo_tolerance = Some(typo)
    /\ wire.from = "client" /\ wire.ty.c = "Settings" /\ wire.src = settings
    /\ wire.doc.o["typoTolerance"].o["minWordSizeForTypos"] =
           JObj([k \in {"oneTypo", "twoTypos"} |->
                    IF k = "oneTypo" THEN JNum(9) ELSE JNum(5)])

\* ---------------------------------------------------------------------------
\* Tasks (FairSpec)
\* ---------------------------------------------------------------------------

\* The task with the given uid has been accepted and not yet applied.
Pending(uid) == \E i \in DOMAIN tasks : tasks[i].uid = uid

EnabledStates == <<NotSet, Reset, Set(TRUE), Set(FALSE)>>

\* C25: every encoding of a TypoToleranceSettings has the keys
\* disableOnAttributes, disableOnWords and minWordSizeForTypos, whatever
\* builder calls were made and whatever state enabled is in; enabled is the
\* only key that can be left out, and an empty list is written as [].
C25_TypoRestAlwaysEncoded ==
    /\ \A i \in DOMAIN EnabledStates :
           LET doc == serialize(Ty("TypoToleranceSettings"), [typo EXCEPT !.enabled = EnabledStates[i]])
           IN  /\ TypoRest \subseteq DOMAIN doc.o
               /\ DOMAIN doc.o \subseteq TypoRest \cup {"enabled"}
    /\ EncodedTypo
           => LET src == TypoSrcOnWire.v
                  doc == TypoDocOnWire
              IN  /\ TypoRest \subseteq DOMAIN doc.o
                  /\ doc.o["disableOnAttributes"] = VecString_serialize(src.disable_on_attributes)
                  /\ doc.o["disableOnWords"] = VecString_serialize(src.disable_on_words)
                  /\ src.disable_on_attributes = <<>> => doc.o["disableOnAttributes"] = JArr(<<>>)
                  /\ src.disable_on_words = <<>> => doc.o["disableOnWords"] = JArr(<<>>)
                  /\ doc.o["minWordSizeForTypos"].j = "obj"

\* C25: with_disable_on_attributes was called with an empty list, and the
\* encoded value carries the key with [].
C25_Witness ==
    /\ hist.on = "TypoToleranceSettings"
    /\ hist.field = "disable_on_attributes" /\ hist.arg = <<>>
    /\ hist.before.disable_on_attributes # <<>>
    /\ wire.from = "client" /\ wire.ty.c = "TypoToleranceSettings" /\ wire.src = typo
    /\ wire.doc.o["disableOnAttributes"] = JArr(<<>>)
    /\ wire.doc.o["disableOnWords"] = JArr(<<>>)

\* C26: every TypoToleranceSettings the builder yields, from new() or
\* default() and any calls of with_enabled, with_disable_on_attributes,
\* with_disable_on_words and with_min_word_size_for_typos, has enabled =
\* Set(b) for a boolean b, and so has every one handed to with_typo_tolerance.
C26_BuilderEnabledIsSet ==
    /\ typo.enabled.tag = "Set" /\ typo.enabled.v \in BOOLEAN
    /\ TypoToleranceSettings_new.enabled = Set(TRUE)
    /\ TypoToleranceSettings_default.enabled = Set(TRUE)
    /\ \A b \in BOOLEAN : with_enabled(typo, b).enabled = Set(b)
    /\ \A v \in AttrLists : with_disable_on_attributes(typo, v).enabled = typo.enabled
    /\ \A v \in WordLists : with_disable_on_words(typo, v).enabled = typo.enabled
    /\ \A v \in MinWordSizeInputs : with_min_word_size_for_typos(typo, v).enabled = typo.enabled
    /\ settings.typo_tolerance.tag = "Some" => settings.typo_tolerance.v.enabled.tag = "Set"

\* C26: with_enabled(false) was called, another mutator after it, and enabled
\* is Set(false).
C26_Witness ==
    /\ hist.on = "TypoToleranceSettings" /\ hist.field = "disable_on_words"
    /\ hist.prev.on = "TypoToleranceSettings" /\ hist.prev.field = "enabled"
    /\ hist.prev.arg = FALSE
    /\ typo.enabled = Set(FALSE)

\* The top-level fields of a Settings value that are Some.
Present(s) == {f \in SettingsFields : s[f].tag = "Some"}

\* C27: a Settings::with_X call adds X to the fields that are Some and takes
\* none away, and nothing else changes them; so, from Settings::new(), the
\* fields that are Some are exactly those whose with_X was called.
C27_PresenceMonotonic ==
    /\ [](calls = 0 => Present(settings) = {})
    /\ []((calls = 1 /\ hist.on = "Settings") => Present(settings) = {hist.field})
    /\ []((calls = 2 /\ hist.on = "Settings" /\ hist.prev.on = "Settings")
              => Present(settings) = {hist.field, hist.prev.field})
    /\ [][IF calls' # calls /\ hist'.on = "Settings"
          THEN Present(settings') = Present(settings) \cup {hist'.field}
          ELSE Present(settings') = Present(settings)]_vars

\* C27: with_filterable_attributes was called with a value and then with an
\* empty list, and the field is still Some.
C27_Witness ==
    /\ hist.on = "Settings" /\ hist.field = "filterable_attributes" /\ hist.arg = <<>>
    /\ hist.prev.on = "Settings" /\ hist.prev.field = "filterable_attributes"
    /\ hist.prev.arg # <<>>
    /\ Present(settings) = {"filterable_attributes"}
    /\ settings.filterable_attributes = Some(<<>>)

\* ---------------------------------------------------------------------------
\* Top-level groups on the wire (SpecCodec)
\* ---------------------------------------------------------------------------

\* A Settings document from the service is on the wire.
SettingsReceived == wire.from = "service" /\ wire.ty.c = "Settings"

\* The document doc with null under key.
Nulled(doc, key) == JObj([k \in DOMAIN doc.o \cup {key} |-> IF k = key THEN JNull ELSE doc.o[k]])

\* Decoding the Settings document doc succeeds, and gives None for every
\* field whose key is absent or holds null and Some for every other.
DecodesByPresence(doc) ==
    LET r == deserialize(Ty("Settings"), doc)
    IN  /\ r.ok
        /\ \A f \in SettingsFields :
               LET k == AggregateKey[f]
               IN  r.v[f] = None <=> (k \notin DOMAIN doc.o \/ doc.o[k] = JNull)

\* C28: an encoded Settings has a key exactly for every field that is Some,
\* and null under none; decoding a Settings document succeeds whichever of
\* the eleven keys it has, and a key that is absent and a key that holds null
\* both give None for the field.
C28_GroupsBinaryOnWire ==
    /\ (wire.from = "client" /\ wire.ty.c = "Settings")
           => /\ \A f \in SettingsFields :
                     AggregateKey[f] \in DOMAIN wire.doc.o <=> wire.src[f].tag = "Some"
              /\ \A k \in DOMAIN wire.doc.o : wire.doc.o[k] # JNull
    /\ SettingsReceived
           => /\ DecodesByPresence(wire.doc)
              /\ \A f \in SettingsFields :
                     LET absent == deserialize(Ty("Settings"), Without(wire.doc, AggregateKey[f]))
                         nulled == deserialize(Ty("Settings"), Nulled(wire.doc, AggregateKey[f]))
                     IN  absent.ok /\ absent.v[f] = None /\ nulled = absent
    /\ (decoded.from = "service" /\ decoded.ty.c = "Settings")
           => /\ decoded.res.ok
              /\ \A f \in SettingsFields :
                     decoded.res.v[f] = None
                         <=> (AggregateKey[f] \notin DOMAIN decoded.doc.o
                                  \/ decoded.doc.o[AggregateKey[f]] = JNull)

\* C28: a Settings document that lacks some keys, holds null under others and
\* values under the rest was decoded.
C28_Witness ==
    /\ decoded.from = "service" /\ decoded.ty.c = "Settings" /\ decoded.res.ok
    /\ "pagination" \notin DOMAIN decoded.doc.o /\ decoded.res.v.pagination = None
    /\ "stopWords" \in DOMAIN decoded.doc.o /\ decoded.doc.o["stopWords"] = JNull
    /\ decoded.res.v.stop_words = None
    /\ decoded.res.v.filterable_attributes = Some(<<>>)

\* C29: TypoToleranceSettings::new() and ::default() are equal, with enabled
\* = Set(true), both lists empty and the word sizes Some(5) and Some(9);
\* Settings::new() and Settings::default() are equal, all eleven fields None;
\* and these are the values a builder chain starts from.
C29_NewEqualsDefault ==
    /\ TypoToleranceSettings_new = TypoToleranceSettings_default
    /\ TypoToleranceSettings_default.enabled = Set(TRUE)
    /\ TypoToleranceSettings_default.disable_on_attributes = <<>>
    /\ TypoToleranceSettings_default.disable_on_words = <<>>
    /\ TypoToleranceSettings_default.min_word_size_for_typos
           = [one_typo |-> Some(5), two_typos |-> Some(9)]
    /\ MinWordSizeForTypos_default = [one_typo |-> Some(5), two_typos |-> Some(9)]
    /\ Settings_new = Settings_default
    /\ DOMAIN Settings_new = SettingsFields /\ Cardinality(SettingsFields) = 11
    /\ \A f \in SettingsFields : Settings_new[f] = None /\ Settings_default[f] = None
    /\ calls = 0 => (typo = TypoToleranceSettings_default /\ settings = Settings_default)
    /\ (calls = 1 /\ hist.on = "TypoToleranceSettings")
           => hist.before = TypoToleranceSettings_default
    /\ (calls = 1 /\ hist.on = "Settings") => hist.before = Settings_default

\* C29: the values new() gives, before any builder call, were encoded: the
\* Settings as the empty document, the TypoToleranceSettings with its defaults.
C29_Witness ==
    /\ calls = 0
    /\ typo = TypoToleranceSettings_default /\ settings = Settings_default
    /\ wire.from = "client" /\ wire.ty.c = "TypoToleranceSettings"
    /\ wire.src = TypoToleranceSettings_new
    /\ wire.doc.o["enabled"] = JBool(TRUE)
    /\ wire.doc.o["minWordSizeForTypos"]
           = JObj([k \in {"oneTypo", "twoTypos"} |-> IF k = "oneTypo" THEN JNum(5) ELSE JNum(9)])

\* ---------------------------------------------------------------------------
\* Word sizes on the wire (SpecCodec)
\* ---------------------------------------------------------------------------

SizeKey == [one_typo |-> "oneTypo", two_typos |-> "twoTypos"]

\* C30: an encoded MinWordSizeForTypos has a key exactly for every sub-field
\* that is Some and null under none; decoding an object in which oneTypo or
\* twoTypos is absent or null gives None for that sub-field, not 5 or 9.
C30_WordSizesPlainOptionals ==
    /\ EncodedTypo
           => LET m == TypoSrcOnWire.v.min_word_size_for_typos
                  d == TypoDocOnWire.o["minWordSizeForTypos"]
              IN  /\ \A f \in DOMAIN SizeKey : SizeKey[f] \in DOMAIN d.o <=> m[f].tag = "Some"
                  /\ \A k \in DOMAIN d.o : d.o[k] # JNull
    /\ (wire.ty.c = "TypoToleranceSettings" /\ HasKey(wire.doc, "minWordSizeForTypos")
            /\ wire.doc.o["minWordSizeForTypos"].j = "obj")
           => \A f \in DOMAIN SizeKey :
                  LET d == wire.doc.o["minWordSizeForTypos"]
                      absent == MinWordSizeForTypos_deserialize(Without(d, SizeKey[f]))
                      nulled == MinWordSizeForTypos_deserialize(Nulled(d, SizeKey[f]))
                  IN  absent.ok /\ absent.v[f] = None /\ nulled = absent
    /\ (decoded.ty.c = "TypoToleranceSettings" /\ decoded.res.ok)
           => LET d == decoded.doc.o["minWordSizeForTypos"]
                  m == decoded.res.v.min_word_size_for_typos
              IN  \A f \in DOMAIN SizeKey :
                      m[f] = None <=> (SizeKey[f] \notin DOMAIN d.o \/ d.o[SizeKey[f]] = JNull)

\* C30: a typo-tolerance document whose word sizes are null was decoded, and
\* both sub-fields are None.
C30_Witness ==
    /\ decoded.from = "service" /\ decoded.ty.c = "TypoToleranceSettings" /\ decoded.res.ok
    /\ decoded.doc.o["minWordSizeForTypos"].o["oneTypo"] = JNull
    /\ decoded.res.v.min_word_size_for_typos = [one_typo |-> None, two_typos |-> None]

====
